---- MODULE Spec2Model ----
(***************************************************************************)
(* Home-Loan-Analytics: the Flask prediction API (app.py) and the chunked  *)
(* SQLite loader of the dashboard pages (pages/page*.py).                  *)
(*                                                                         *)
(* Numbers are fixed point, in thousandths (field m): 2.5 is m = 2500.     *)
(***************************************************************************)
EXTENDS Integers, Sequences, FiniteSets, TLC

(***************************************************************************)
(* Feature lists of the four endpoints, in the order the code writes them. *)
(***************************************************************************)
\* app.py 17-63: features of predict()
PredictKeys ==
    << "purchaser_type", "preapproval",
       "reverse_mortgage", "open_end_line_of_credit",
       "loan_amount", "loan_to_value_ratio",
       "interest_rate", "loan_term",
       "negative_amortization", "interest_only_payment",
       "balloon_payment", "other_nonamortizing_features",
       "property_value", "total_units",
       "income", "applicant_credit_score_type",
       "co_applicant_credit_score_type", "applicant_age_above_62",
       "co_applicant_age_above_62", "tract_population",
       "tract_minority_population_percent", "ffiec_msa_md_median_family_income",
       "tract_to_msa_income_percentage", "tract_owner_occupied_units",
       "tract_median_age_of_housing_units", "derived_loan_product_type_FHA_First_Lien",
       "derived_loan_product_type_FSA_RHS_First_Lien", "derived_loan_product_type_VA_First_Lien",
       "derived_dwelling_category_Multifamily_Site_Built", "derived_dwelling_category_SingleFamily_Manufactured",
       "loan_purpose_2", "loan_purpose_4",
       "loan_purpose_5", "loan_purpose_31",
       "loan_purpose_32", "occupancy_type_2",
       "occupancy_type_3", "submission_of_application_2",
       "initially_payable_to_institution_2", "aus_1_2",
       "aus_1_3", "aus_1_4",
       "aus_1_5", "aus_1_6",
       "aus_1_7" >>

\* app.py 87-118: features of predict_interest_rate()
InterestRateKeys ==
    << "loan_amount", "loan_term",
       "loan_purpose_2", "loan_purpose_4",
       "loan_purpose_5", "loan_type_2",
       "loan_type_3", "lien_status_2",
       "negative_amortization", "interest_only_payment",
       "balloon_payment", "other_nonamortizing_features",
       "conforming_loan_limit_NC", "derived_loan_product_type_Conventional:Subordinate Lien",
       "derived_loan_product_type_FHA:First Lien", "derived_loan_product_type_VA:First Lien",
       "derived_loan_product_type_VA:Subordinate Lien", "applicant_credit_score_type",
       "co-applicant_credit_score_type", "co-applicant_age",
       "applicant_age_above_62", "occupancy_type_3",
       "manufactured_home_secured_property_type_2", "manufactured_home_land_property_interest_3",
       "submission_of_application_3", "initially_payable_to_institution_3",
       "purchaser_type", "business_or_commercial_purpose",
       "open-end_line_of_credit", "reverse_mortgage" >>

\* app.py 131-170: features of predict_borrower_risk()
BorrowerRiskKeys ==
    << "debt_to_income_ratio", "loan_to_value_ratio",
       "interest_rate", "loan_amount",
       "rate_spread", "total_loan_costs",
       "origination_charges", "loan_term",
       "income", "property_value",
       "applicant_credit_score_type", "co_applicant_credit_score_type",
       "co_applicant_age", "applicant_age_above_62",
       "co_applicant_age_above_62", "loan_type_2",
       "loan_type_3", "loan_type_4",
       "loan_purpose_2", "loan_purpose_4",
       "loan_purpose_5", "loan_purpose_31",
       "loan_purpose_32", "derived_loan_product_type_Conventional:Subordinate_Lien",
       "derived_loan_product_type_FHA:First_Lien", "derived_loan_product_type_FHA:Subordinate_Lien",
       "derived_loan_product_type_FSA/RHS:First_Lien", "derived_loan_product_type_FSA/RHS:Subordinate_Lien",
       "derived_loan_product_type_VA:First_Lien", "derived_loan_product_type_VA:Subordinate_Lien",
       "occupancy_type_2", "occupancy_type_3",
       "derived_dwelling_category_Multifamily:Site-Built", "derived_dwelling_category_Single Family (1-4 Units):Manufactured",
       "derived_dwelling_category_Single Family (1-4 Units):Site-Built", "derived_msa-md",
       "tract_minority_population_percent", "ffiec_msa_md_median_family_income" >>

\* app.py 187-240: features of predict_property_value()
PropertyValueKeys ==
    << "purchaser_type", "preapproval",
       "reverse_mortgage", "open-end_line_of_credit",
       "business_or_commercial_purpose", "loan_amount",
       "loan_to_value_ratio", "interest_rate",
       "loan_term", "negative_amortization",
       "interest_only_payment", "balloon_payment",
       "other_nonamortizing_features", "total_units",
       "income", "applicant_credit_score_type",
       "co-applicant_credit_score_type", "co-applicant_age",
       "applicant_age_above_62", "co-applicant_age_above_62",
       "tract_population", "tract_minority_population_percent",
       "ffiec_msa_md_median_family_income", "tract_to_msa_income_percentage",
       "tract_owner_occupied_units", "tract_median_age_of_housing_units",
       "derived_loan_product_type_Conventional:Subordinate Lien", "derived_loan_product_type_FHA:First Lien",
       "derived_loan_product_type_FHA:Subordinate Lien", "derived_loan_product_type_FSA/RHS:First Lien",
       "derived_loan_product_type_FSA/RHS:Subordinate Lien", "derived_loan_product_type_VA:First Lien",
       "derived_loan_product_type_VA:Subordinate Lien", "derived_dwelling_category_Multifamily:Site-Built",
       "derived_dwelling_category_Single Family (1-4 Units):Manufactured", "conforming_loan_limit_NC",
       "conforming_loan_limit_U", "loan_purpose_2",
       "loan_purpose_4", "loan_purpose_5",
       "loan_purpose_31", "loan_purpose_32",
       "occupancy_type_2", "occupancy_type_3",
       "manufactured_home_secured_property_type_2", "manufactured_home_secured_property_type_1111",
       "manufactured_home_land_property_interest_2", "manufactured_home_land_property_interest_3",
       "manufactured_home_land_property_interest_4", "submission_of_application_2",
       "submission_of_application_1111", "initially_payable_to_institution_2" >>

\* app.py 187-240: the int(...) / float(...) call wrapped around each lookup
PropertyValueCoercers ==
    << "int", "int", "int", "int", "int", "float", "float", "float",
       "int", "int", "int", "int", "int", "int", "float", "int",
       "int", "int", "int", "int", "int", "float", "float", "float",
       "int", "int", "int", "int", "int", "int", "int", "int",
       "int", "int", "int", "int", "int", "int", "int", "int",
       "int", "int", "int", "int", "int", "int", "int", "int",
       "int", "int", "int", "int" >>

Endpoints == {"/predict", "/predict_interest_rate", "/predict_borrower_risk", "/predict_property_value"}

\* the key list an endpoint's handler reads
Keys(e) ==
    CASE e = "/predict" -> PredictKeys
      [] e = "/predict_interest_rate" -> InterestRateKeys
      [] e = "/predict_borrower_risk" -> BorrowerRiskKeys
      [] e = "/predict_property_value" -> PropertyValueKeys

\* the conversion an endpoint's handler applies to each looked-up value:
\* only predict_property_value wraps its lookups in int() / float()
Coercers(e) ==
    IF e = "/predict_property_value"
    THEN PropertyValueCoercers
    ELSE [i \in 1..Len(Keys(e)) |-> "raw"]

(***************************************************************************)
(* JSON values of a request body and Python's int() and float() on them.   *)
(* A string is a tuple of characters.                                      *)
(***************************************************************************)
IntV(n) == [t |-> "int", m |-> n * 1000, s |-> << >>]
FltV(m) == [t |-> "float", m |-> m, s |-> << >>]
StrV(s) == [t |-> "str", m |-> 0, s |-> s]
Null == [t |-> "null", m |-> 0, s |-> << >>]

IsNumber(v) == v.t \in {"int", "float"}

Digits == <<"0", "1", "2", "3", "4", "5", "6", "7", "8", "9">>
IsDigit(c) == \E d \in 1..10 : Digits[d] = c
DigitVal(c) == (CHOOSE d \in 1..10 : Digits[d] = c) - 1

AllDigits(s) == Len(s) > 0 /\ \A i \in 1..Len(s) : IsDigit(s[i])

RECURSIVE DigitsVal(_)
DigitsVal(s) ==
    IF Len(s) = 0 THEN 0
    ELSE 10 * DigitsVal(SubSeq(s, 1, Len(s) - 1)) + DigitVal(s[Len(s)])

Unsigned(s) == IF Len(s) > 0 /\ s[1] = "-" THEN Tail(s) ELSE s
Sign(s) == IF Len(s) > 0 /\ s[1] = "-" THEN -1 ELSE 1

DotPos(s) == {i \in 1..Len(s) : s[i] = "."}

\* thousandths denoted by up to three fraction digits
FracMilli(f) ==
    CASE Len(f) = 0 -> 0
      [] Len(f) = 1 -> 100 * DigitsVal(f)
      [] Len(f) = 2 -> 10 * DigitsVal(f)
      [] OTHER -> DigitsVal(SubSeq(f, 1, 3))

Ok(v) == [ok |-> TRUE, v |-> v, exc |-> "", arg |-> ""]
Raise(type, arg) == [ok |-> FALSE, v |-> Null, exc |-> type, arg |-> arg]

\* int(x): an int is kept, a float is truncated toward zero, a string must
\* be an integer literal, None is a TypeError
PyInt(x) ==
    CASE x.t = "int" -> Ok(x)
      [] x.t = "float" ->
            Ok([t |-> "int",
                m |-> IF x.m >= 0 THEN (x.m \div 1000) * 1000
                                  ELSE -(((-x.m) \div 1000) * 1000),
                s |-> << >>])
      [] x.t = "str" ->
            IF AllDigits(Unsigned(x.s))
            THEN Ok(IntV(Sign(x.s) * DigitsVal(Unsigned(x.s))))
            ELSE Raise("ValueError", "invalid literal for int()")
      [] OTHER -> Raise("TypeError", "int() argument must be a string or a number")

\* float(x): a number keeps its value, a string must be a decimal literal,
\* None is a TypeError
PyFloat(x) ==
    CASE x.t \in {"int", "float"} -> Ok(FltV(x.m))
      [] x.t = "str" ->
            LET u == Unsigned(x.s)
                dots == DotPos(u)
            IN  IF dots = {} /\ AllDigits(u)
                THEN Ok(FltV(Sign(x.s) * 1000 * DigitsVal(u)))
                ELSE IF Cardinality(dots) = 1
                THEN LET d == CHOOSE i \in dots : TRUE
                         ip == SubSeq(u, 1, d - 1)
                         fp == SubSeq(u, d + 1, Len(u))
                     IN  IF /\ Len(ip) + Len(fp) > 0
                            /\ \A i \in 1..Len(ip) : IsDigit(ip[i])
                            /\ \A i \in 1..Len(fp) : IsDigit(fp[i])
                         THEN Ok(FltV(Sign(x.s) * (1000 * DigitsVal(ip) + FracMilli(fp))))
                         ELSE Raise("ValueError", "could not convert string to float")
                ELSE Raise("ValueError", "could not convert string to float")
      [] OTHER -> Raise("TypeError", "float() argument must be a string or a number")

\* the call written around data[...] in a feature list
Coerce(c, x) ==
    CASE c = "int" -> PyInt(x)
      [] c = "float" -> PyFloat(x)
      [] OTHER -> Ok(x)

(***************************************************************************)
(* Evaluation of a feature list: the elements are evaluated left to right, *)
(* each one a lookup data[key] (KeyError when the key is absent) and then  *)
(* the conversion call; the first exception ends the evaluation.           *)
(***************************************************************************)
\* variant: the first two elements of the list written in the other order
EvalFromSwapped(keys, coercers, data, i, acc) ==
    LET at(k) == IF k = 1 THEN 2 ELSE IF k = 2 THEN 1 ELSE k
        c(k) == Coerce(coercers[at(k)], data[keys[at(k)]])
        failed == {k \in i..Len(keys) : keys[at(k)] \notin DOMAIN data \/ ~c(k).ok}
    IN  IF failed = {}
        THEN [ok |-> TRUE, exc |-> "", arg |-> "",
              vec |-> IF i > Len(keys) THEN acc
                      ELSE acc \o [k \in 1..(Len(keys) - i + 1) |-> c(k + i - 1).v]]
        ELSE LET first == CHOOSE k \in failed : \A l \in failed : k <= l
             IN  IF keys[at(first)] \notin DOMAIN data
                 THEN [ok |-> FALSE, vec |-> << >>, exc |-> "KeyError", arg |-> keys[at(first)]]
                 ELSE [ok |-> FALSE, vec |-> << >>, exc |-> c(first).exc, arg |-> c(first).arg]

\* variant: data.get(key, 0) in place of data[key]
EvalFromDefaulting(keys, coercers, data, i, acc) ==
    LET c(k) == Coerce(coercers[k], IF keys[k] \in DOMAIN data THEN data[keys[k]] ELSE IntV(0))
        failed == {k \in i..Len(keys) : ~c(k).ok}
    IN  IF failed = {}
        THEN [ok |-> TRUE, exc |-> "", arg |-> "",
              vec |-> IF i > Len(keys) THEN acc
                      ELSE acc \o [k \in 1..(Len(keys) - i + 1) |-> c(k + i - 1).v]]
        ELSE LET first == CHOOSE k \in failed : \A l \in failed : k <= l
             IN  [ok |-> FALSE, vec |-> << >>, exc |-> c(first).exc, arg |-> c(first).arg]

\* the elements from the i-th on, after the values acc of the ones before:
\* the first element whose lookup or conversion raises decides the outcome
EvalFrom(keys, coercers, data, i, acc) ==
    LET c(k) == Coerce(coercers[k], data[keys[k]])
        failed == {k \in i..Len(keys) : keys[k] \notin DOMAIN data \/ ~c(k).ok}
    IN  IF failed = {}
        THEN [ok |-> TRUE, exc |-> "", arg |-> "",
              vec |-> IF i > Len(keys) THEN acc
                      ELSE acc \o [k \in 1..(Len(keys) - i + 1) |-> c(k + i - 1).v]]
        ELSE LET first == CHOOSE k \in failed : \A l \in failed : k <= l
             IN  IF keys[first] \notin DOMAIN data
                 THEN [ok |-> FALSE, vec |-> << >>, exc |-> "KeyError", arg |-> keys[first]]
                 ELSE [ok |-> FALSE, vec |-> << >>, exc |-> c(first).exc, arg |-> c(first).arg]

\* variant: the first element of the list left out
featuresShort(e, data) == EvalFrom(Keys(e), Coercers(e), data, 2, << >>)

features(e, data) == EvalFrom(Keys(e), Coercers(e), data, 1, << >>)

(***************************************************************************)
(* np.array(features) in predict(): the elements take one common type.     *)
(* With a None the array holds the objects as they are; otherwise with a   *)
(* string every element becomes a string, the numbers by their decimal     *)
(* text; otherwise with a float every element becomes a float.             *)
(***************************************************************************)
RECURSIVE NatChars(_)
NatChars(n) ==
    IF n < 10 THEN <<Digits[n + 1]>>
    ELSE NatChars(n \div 10) \o <<Digits[(n % 10) + 1]>>

\* the fraction digits of f thousandths, without trailing zeros
FracChars(f) ==
    IF f % 100 = 0 THEN <<Digits[(f \div 100) + 1]>>
    ELSE IF f % 10 = 0 THEN <<Digits[(f \div 100) + 1], Digits[((f \div 10) % 10) + 1]>>
    ELSE <<Digits[(f \div 100) + 1], Digits[((f \div 10) % 10) + 1], Digits[(f % 10) + 1]>>

\* str(x) of a number
NumChars(x) ==
    LET a == IF x.m >= 0 THEN x.m ELSE -x.m
        sign == IF x.m >= 0 THEN << >> ELSE <<"-">>
    IN  IF x.t = "int" THEN sign \o NatChars(a \div 1000)
        ELSE sign \o NatChars(a \div 1000) \o <<".">> \o FracChars(a % 1000)

NpDtype(kinds) ==
    IF "null" \in kinds THEN "object"
    ELSE IF "str" \in kinds THEN "str"
    ELSE IF "float" \in kinds THEN "float"
    ELSE "int"

NpCast(dtype, x) ==
    CASE dtype = "str" -> IF x.t = "str" THEN x ELSE StrV(NumChars(x))
      [] dtype = "float" -> FltV(x.m)
      [] OTHER -> x

NpArray(vec) ==
    LET dtype == NpDtype({vec[i].t : i \in 1..Len(vec)})
    IN  [i \in 1..Len(vec) |-> NpCast(dtype, vec[i])]

(***************************************************************************)
(* Results of the handlers.                                                *)
(***************************************************************************)
\* round(x, 2) on a float: nearest hundredth, a tie going to the even one
PyRound2(x) ==
    LET a == IF x.m >= 0 THEN x.m ELSE -x.m
        q == a \div 10
        r == a % 10
        h == IF r > 5 \/ (r = 5 /\ q % 2 = 1) THEN q + 1 ELSE q
    IN  FltV((IF x.m >= 0 THEN 1 ELSE -1) * h * 10)

\* variant: the classifier endpoints also report the probability
resultWithProbability(e, prediction, probability) ==
    CASE e = "/predict" ->
            ("approval_status" :> PyInt(prediction).v) @@ ("probability" :> probability)
      [] e = "/predict_interest_rate" -> ("predicted_interest_rate" :> PyFloat(prediction).v)
      [] e = "/predict_borrower_risk" ->
            ("risk_classification" :> PyInt(prediction).v) @@ ("confidence" :> probability)
      [] e = "/predict_property_value" -> ("predicted_property_value" :> PyRound2(PyFloat(prediction).v))

\* the dictionary each handler passes to jsonify; the probability that
\* predict() and predict_borrower_risk() compute is not used
result(e, prediction, probability) ==
    CASE e = "/predict" -> ("approval_status" :> PyInt(prediction).v)
      [] e = "/predict_interest_rate" -> ("predicted_interest_rate" :> PyFloat(prediction).v)
      [] e = "/predict_borrower_risk" -> ("risk_classification" :> PyInt(prediction).v)
      [] e = "/predict_property_value" -> ("predicted_property_value" :> PyRound2(PyFloat(prediction).v))

Classifiers == {"/predict", "/predict_borrower_risk"}

(***************************************************************************)
(* Bounds of the explored requests and artifacts.                          *)
(***************************************************************************)
\* a request body departs from the complete body at one position of the
\* feature list, or at up to MaxPerturb positions among the first MaxProbe
\* positions and the last one
MaxPerturb == 2
MaxProbe == 3
\* a model artifact expects the handler's number of features or DimDrift fewer
DimDrift == 1

ExtraKey == "not_a_feature"

\* values put at a perturbed position
OddValues ==
    { StrV(<<"a", "b", "c">>), StrV(<<"7">>), StrV(<<"2", ".", "5">>),
      FltV(2700), Null }
Missing == [t |-> "missing", m |-> 0, s |-> << >>]
Options == OddValues \cup {Missing}

\* value of the complete body at position i of the endpoint's feature list
BaseValue(e, i) ==
    IF Coercers(e)[i] = "float" THEN FltV(1000 * i + 500) ELSE IntV(i)

Probe(e) == (1..MaxProbe) \cup {Len(Keys(e))}

PerturbSets(e) ==
    {{}} \cup {{i} : i \in 1..Len(Keys(e))}
         \cup {ps \in SUBSET Probe(e) : Cardinality(ps) <= MaxPerturb}

\* position of each key in an endpoint's feature list
PosTable ==
    [e \in Endpoints |->
        [k \in {Keys(e)[i] : i \in 1..Len(Keys(e))} |->
            CHOOSE i \in 1..Len(Keys(e)) : Keys(e)[i] = k]]
Pos(e, k) == PosTable[e][k]

\* the request body: pert maps the perturbed positions to their option
Payload(e, pert, extra) ==
    LET present == {Keys(e)[i] : i \in {j \in 1..Len(Keys(e)) :
                        j \notin DOMAIN pert \/ pert[j] # Missing}}
        dom == present \cup (IF extra THEN {ExtraKey} ELSE {})
    IN  [k \in dom |->
            IF k = ExtraKey THEN IntV(999)
            ELSE IF Pos(e, k) \in DOMAIN pert THEN pert[Pos(e, k)]
            ELSE BaseValue(e, Pos(e, k))]

ArtifactDims(e) == {Len(Keys(e)), Len(Keys(e)) - DimDrift}

\* what a fitted model can return for one row
Predictions(e) ==
    IF e \in Classifiers THEN {IntV(0), IntV(1)}
    ELSE {FltV(4375), FltV(6125), FltV(3141)}
Probabilities == {FltV(625), FltV(875)}

(***************************************************************************)
(* State.                                                                  *)
(***************************************************************************)
VARIABLES
    model,      \* app.py 10: the module-level approval model
    req         \* the requests in flight, one per worker thread

VARIABLES
    loads       \* joblib.load calls that returned so far, per artifact file

\* the dashboard process (app1.py and the page modules)
VARIABLES
    table,      \* rows of the table downsample_random in my_database.db
    order,      \* the page modules the process imports, in import order
    imported,   \* how many of them have been imported
    dfs,        \* page module -> its module-level df
    db_loads,   \* calls of load_chunked_data_from_db so far
    crashed,    \* an import raised: the process never serves
    layout,     \* what page1's layout shows in its four KPI cards
    out         \* what the last callback invocation did

dashVars == <<table, order, imported, dfs, db_loads, crashed, layout, out>>

\* out while no callback has been invoked
NoCall == [cb |-> "", args |-> << >>, view |-> << >>, ret |-> << >>, exc |-> ""]

Threads == {1}

IdleReq ==
    [pc |-> "idle", endpoint |-> "", data |-> << >>, features |-> << >>,
     vector |-> << >>,
     handle |-> 0, prediction |-> Null, probability |-> Null, invoked |-> 0,
     status |-> 0, body |-> << >>, exc |-> "", arg |-> ""]

apiVars == <<model, req, loads>>

\* the artifact file each endpoint's handler predicts with
Artifact(e) ==
    CASE e = "/predict" -> "loan_approval_model.pkl"
      [] e = "/predict_interest_rate" -> "interest_rate_model.pkl"
      [] e = "/predict_borrower_risk" -> "high_risk_model.pkl"
      [] e = "/predict_property_value" -> "property_value_model.pkl"

Artifacts == {Artifact(e) : e \in Endpoints}

\* model = joblib.load('loan_approval_model.pkl') ran at import
LoadsAtImport == [a \in Artifacts |-> IF a = Artifact("/predict") THEN 1 ELSE 0]

InitApi ==
    /\ model \in {[n |-> d] : d \in ArtifactDims("/predict")}
    /\ req = [t \in Threads |-> IdleReq]
    /\ loads = LoadsAtImport

\* variant: the exception ends the process, every request in flight fails with it
AbortAll(t, exc, arg) ==
    req' = [u \in DOMAIN req |->
               IF u = t \/ req[u].pc \notin {"idle", "done"}
               THEN [req[u] EXCEPT !.pc = "done", !.status = 500, !.exc = exc, !.arg = arg]
               ELSE req[u]]

\* an exception leaves the view function: no handler catches it and the
\* application registers no error handler, so Flask answers 500
Abort(t, exc, arg) ==
    req' = [req EXCEPT ![t] = [@ EXCEPT !.pc = "done", !.status = 500,
                                        !.exc = exc, !.arg = arg]]

\* data = request.json
Receive(t, e, p) ==
    /\ req[t].pc = "idle"
    /\ req' = [req EXCEPT ![t] = [IdleReq EXCEPT
                  !.pc = IF e = "/predict_property_value" THEN "load" ELSE "features",
                  !.endpoint = e, !.data = p]]
    /\ UNCHANGED <<model, loads>>

\* features = [ data[...], ... ]; vector is what the model call will be
\* given: features_array = np.array(features).reshape(1, -1) in predict(),
\* [features] in the other handlers
Features(t) ==
    LET r == req[t]
        f == features(r.endpoint, r.data)
    IN  /\ r.pc = "features"
        /\ IF f.ok
           THEN req' = [req EXCEPT ![t] = [@ EXCEPT
                           !.features = f.vec,
                           !.vector = IF r.endpoint = "/predict"
                                      THEN NpArray(f.vec) ELSE f.vec,
                           !.pc = IF r.endpoint \in {"/predict", "/predict_property_value"}
                                  THEN "predict" ELSE "load"]]
           ELSE Abort(t, f.exc, f.arg)
        /\ UNCHANGED <<model, loads>>

\* joblib.load(...) inside a handler
LoadModel(t) ==
    LET r == req[t]
    IN  /\ r.pc = "load"
        /\ \/ /\ \E d \in ArtifactDims(r.endpoint) :
                    req' = [req EXCEPT ![t] = [@ EXCEPT
                              !.handle = d,
                              !.pc = IF r.endpoint = "/predict_property_value"
                                     THEN "features" ELSE "predict"]]
              /\ loads' = [loads EXCEPT ![Artifact(r.endpoint)] = @ + 1]
           \/ /\ Abort(t, "FileNotFoundError", "")
              /\ UNCHANGED loads
        /\ UNCHANGED model

\* model.predict(...)[0]
Predict(t) ==
    LET r == req[t]
        n == IF r.endpoint = "/predict" THEN model.n ELSE r.handle
        called == [r EXCEPT !.invoked = @ + 1]
        answer(p) == [called EXCEPT !.prediction = p,
                         !.pc = IF r.endpoint \in Classifiers THEN "proba" ELSE "respond"]
        fails == [called EXCEPT !.pc = "done", !.status = 500,
                                !.exc = "ValueError", !.arg = "raised by the model library"]
    IN  /\ r.pc = "predict"
        /\ IF Len(r.vector) # n
           THEN req' = [req EXCEPT ![t] = fails]
           ELSE IF \E i \in 1..Len(r.vector) : ~IsNumber(r.vector[i])
           THEN \/ req' = [req EXCEPT ![t] = fails]
                \/ \E p \in Predictions(r.endpoint) : req' = [req EXCEPT ![t] = answer(p)]
           ELSE \E p \in Predictions(r.endpoint) : req' = [req EXCEPT ![t] = answer(p)]
        /\ UNCHANGED <<model, loads>>

\* model.predict_proba(...).max()
Proba(t) ==
    LET r == req[t]
    IN  /\ r.pc = "proba"
        /\ \E q \in Probabilities :
              req' = [req EXCEPT ![t] = [@ EXCEPT !.probability = q,
                                          !.invoked = @ + 1, !.pc = "respond"]]
        /\ UNCHANGED <<model, loads>>

\* return jsonify(...)
Respond(t) ==
    LET r == req[t]
    IN  /\ r.pc = "respond"
        /\ req' = [req EXCEPT ![t] = [@ EXCEPT
                      !.status = 200,
                      !.body = result(r.endpoint, r.prediction, r.probability),
                      !.pc = "done"]]
        /\ UNCHANGED <<model, loads>>

\* the response is sent and the thread takes the next request
Finish(t) ==
    /\ req[t].pc = "done"
    /\ req' = [req EXCEPT ![t] = IdleReq]
    /\ UNCHANGED <<model, loads>>

(***************************************************************************)
(* load_chunked_data_from_db (the same function in each pages/page*.py)    *)
(* and the module-level  df = load_chunked_data_from_db(...)  of a page.   *)
(***************************************************************************)
MaxSource == 5      \* rows in the table
MaxChunk == 3       \* chunksize
MaxCap == 3         \* max_rows

RowValues == {"x", "y"}

RECURSIVE SeqsUpTo(_)
SeqsUpTo(n) ==
    IF n = 0 THEN {<< >>}
    ELSE LET shorter == SeqsUpTo(n - 1)
         IN  shorter \cup {Append(s, v) : s \in {u \in shorter : Len(u) = n - 1}, v \in RowValues}

\* variant: each chunk put in front of the ones before it
RECURSIVE FlattenReversed(_)
FlattenReversed(cs) == IF cs = << >> THEN << >> ELSE FlattenReversed(Tail(cs)) \o Head(cs)

\* pd.concat(chunks, ignore_index=True): the rows of the chunks, in order
RECURSIVE Flatten(_)
Flatten(cs) == IF cs = << >> THEN << >> ELSE Head(cs) \o Flatten(Tail(cs))

Min(a, b) == IF a <= b THEN a ELSE b

VARIABLES
    source,         \* rows of the table, in the order the query returns them
    chunksize,
    max_rows,       \* {} for None, {R} for the number R
    lpc,            \* position in the load
    conn,           \* the sqlite3 connection of the call
    fetched,        \* rows the cursor has handed out
    has_read_data,  \* pandas' chunk iterator: a non-empty chunk was produced
    exhausted,      \* pandas' chunk iterator: the empty result was produced
    chunks,
    total_rows,
    returned,       \* the value the call returned, {} while there is none
    error,          \* the exception raised inside the call, "" while there is none
    df              \* the page's module-level df, {} while unassigned

loadVars == <<source, chunksize, max_rows, lpc, conn, fetched, has_read_data,
              exhausted, chunks, total_rows, returned, error, df>>

vars == <<model, req, loads, source, chunksize, max_rows, lpc, conn, fetched,
          has_read_data, exhausted, chunks, total_rows, returned, error, df,
          dashVars>>

InitLoad ==
    /\ source \in SeqsUpTo(MaxSource)
    /\ chunksize \in 1..MaxChunk
    /\ max_rows \in {{}} \cup {{r} : r \in 0..MaxCap}
    /\ lpc = "call"
    /\ conn = "none"
    /\ fetched = 0
    /\ has_read_data = FALSE
    /\ exhausted = FALSE
    /\ chunks = << >>
    /\ total_rows = 0
    /\ returned = {}
    /\ error = ""
    /\ df = {}

\* conn = sqlite3.connect(db_path); chunks = []; total_rows = 0
Connect ==
    /\ lpc = "call"
    /\ \/ /\ conn' = "open"
          /\ lpc' = "loop"
          /\ UNCHANGED error
       \/ /\ error' = "OperationalError"
          /\ lpc' = "failed"
          /\ UNCHANGED conn
    /\ UNCHANGED <<source, chunksize, max_rows, fetched, has_read_data,
                   exhausted, chunks, total_rows, returned, df, model, req, loads, dashVars>>

\* variant: total_rows > max_rows
CapReachedStrict(total) == \E r \in max_rows : total > r

\* if max_rows is not None and total_rows >= max_rows
CapReached(total) == \E r \in max_rows : total >= r

\* one turn of  for chunk in pd.read_sql_query(sql, conn, chunksize=chunksize):
\* the iterator fetches up to chunksize rows; with none left it ends, after
\* producing one empty chunk when it has produced nothing yet; the loop body
\* appends the chunk, adds its length, and breaks when the cap is reached
NextChunk ==
    LET data == SubSeq(source, fetched + 1, Min(fetched + chunksize, Len(source)))
        ended == exhausted \/ (data = << >> /\ has_read_data)
    IN  /\ lpc = "loop"
        /\ IF ended
           THEN /\ lpc' = "close"
                /\ UNCHANGED <<fetched, has_read_data, exhausted, chunks, total_rows>>
           ELSE /\ fetched' = fetched + Len(data)
                /\ has_read_data' = (data # << >>)
                /\ exhausted' = (data = << >>)
                /\ chunks' = Append(chunks, data)
                /\ total_rows' = total_rows + Len(data)
                /\ lpc' = IF CapReached(total_rows + Len(data)) THEN "close" ELSE "loop"
        /\ UNCHANGED <<source, chunksize, max_rows, conn, returned, error, df, model, req, loads, dashVars>>

\* variant: the failure is caught and the chunks read so far are returned
ReadFailsPartial ==
    /\ lpc = "loop"
    /\ chunks # << >>
    /\ error' = "DatabaseError"
    /\ returned' = {Flatten(chunks)}
    /\ lpc' = "returned"
    /\ UNCHANGED <<source, chunksize, max_rows, conn, fetched, has_read_data,
                   exhausted, chunks, total_rows, df, model, req, loads, dashVars>>

\* the query or a fetch raises: the exception leaves the function
ReadFails ==
    /\ lpc = "loop"
    /\ error' = "DatabaseError"
    /\ lpc' = "failed"
    /\ UNCHANGED <<source, chunksize, max_rows, conn, fetched, has_read_data,
                   exhausted, chunks, total_rows, returned, df, model, req, loads, dashVars>>

\* conn.close()
Close ==
    /\ lpc = "close"
    /\ conn' = "closed"
    /\ lpc' = "concat"
    /\ UNCHANGED <<source, chunksize, max_rows, fetched, has_read_data,
                   exhausted, chunks, total_rows, returned, error, df, model, req, loads, dashVars>>

\* return pd.concat(chunks, ignore_index=True)
\* pd.concat raises on an empty list, and can run out of memory
Concat ==
    /\ lpc = "concat"
    /\ \/ /\ chunks # << >>
          /\ returned' = {Flatten(chunks)}
          /\ lpc' = "returned"
          /\ UNCHANGED error
       \/ /\ error' = IF chunks = << >> THEN "ValueError" ELSE "MemoryError"
          /\ lpc' = "failed"
          /\ UNCHANGED returned
    /\ UNCHANGED <<source, chunksize, max_rows, conn, fetched, has_read_data,
                   exhausted, chunks, total_rows, df, model, req, loads, dashVars>>

\* df = load_chunked_data_from_db(...)
AssignDf ==
    /\ lpc = "returned"
    /\ df' = returned
    /\ lpc' = "imported"
    /\ UNCHANGED <<source, chunksize, max_rows, conn, fetched, has_read_data,
                   exhausted, chunks, total_rows, returned, error, model, req, loads, dashVars>>

(***************************************************************************)
(* Specifications: the prediction API process and a page's load.           *)
(***************************************************************************)
NoLoad ==
    /\ source = << >> /\ chunksize = 1 /\ max_rows = {} /\ lpc = "none"
    /\ conn = "none" /\ fetched = 0 /\ has_read_data = FALSE /\ exhausted = FALSE
    /\ chunks = << >> /\ total_rows = 0 /\ returned = {} /\ error = "" /\ df = {}

NoApi ==
    /\ model = [n |-> 0]
    /\ req = [t \in Threads |-> IdleReq]
    /\ loads = [a \in Artifacts |-> 0]

NoDash ==
    /\ table = << >> /\ order = << >> /\ imported = 0 /\ dfs = << >>
    /\ db_loads = 0 /\ crashed = FALSE /\ layout = << >> /\ out = NoCall

Init == InitApi /\ NoLoad /\ NoDash

\* Spec follows every request a freshly started API process can answer, up
\* to the first load a handler makes; SpecServer follows the loads over
\* sequences and interleavings of requests
Next ==
    \E t \in Threads :
        \/ /\ req[t].pc = "idle"
           /\ loads = LoadsAtImport
           /\ \E e \in Endpoints : \E ps \in PerturbSets(e) : \E pert \in [ps -> Options] :
                 \E extra \in BOOLEAN :
                    Receive(t, e, Payload(e, pert, extra))
           /\ UNCHANGED <<loadVars, dashVars>>
        \/ Features(t) /\ UNCHANGED <<loadVars, dashVars>>
        \/ LoadModel(t) /\ UNCHANGED <<loadVars, dashVars>>
        \/ Predict(t) /\ UNCHANGED <<loadVars, dashVars>>
        \/ Proba(t) /\ UNCHANGED <<loadVars, dashVars>>
        \/ Respond(t) /\ UNCHANGED <<loadVars, dashVars>>
        \/ Finish(t) /\ UNCHANGED <<loadVars, dashVars>>

Spec == Init /\ [][Next]_vars

InitLoader == NoApi /\ InitLoad /\ NoDash

NextLoad == Connect \/ NextChunk \/ ReadFails \/ Close \/ Concat \/ AssignDf

SpecLoad == InitLoader /\ [][NextLoad]_vars

(***************************************************************************)
(* The API process under load: Flask serves each request on a thread of    *)
(* its own, so requests are in flight at once.                             *)
(***************************************************************************)
MaxLoads == 3       \* joblib.load calls of one process that are followed

ServerThreads == {1, 2}

\* the requests sent to the server: complete payloads and payloads that lack
\* their first key
ServerPayloads(e) == {Payload(e, << >>, FALSE), Payload(e, (1 :> Missing), FALSE)}

\* requests in flight that have a joblib.load ahead of them
Pending ==
    Cardinality({t \in ServerThreads :
                    /\ req[t].endpoint # "/predict"
                    /\ req[t].handle = 0
                    /\ req[t].pc \in {"features", "load"}})

\* joblib.load calls the process has made so far, over the four artifacts
Loaded ==
    loads[Artifact("/predict")] + loads[Artifact("/predict_interest_rate")]
        + loads[Artifact("/predict_borrower_risk")]
        + loads[Artifact("/predict_property_value")]

InitServer ==
    /\ model \in {[n |-> d] : d \in ArtifactDims("/predict")}
    /\ req = [t \in ServerThreads |-> IdleReq]
    /\ loads = LoadsAtImport
    /\ NoLoad /\ NoDash

NextServer ==
    \E t \in ServerThreads :
        \/ /\ req[t].pc = "idle"
           /\ \E e \in Endpoints : \E p \in ServerPayloads(e) :
                 /\ e # "/predict" => Loaded + Pending < MaxLoads
                 /\ Receive(t, e, p)
           /\ UNCHANGED <<loadVars, dashVars>>
        \/ Features(t) /\ UNCHANGED <<loadVars, dashVars>>
        \/ LoadModel(t) /\ UNCHANGED <<loadVars, dashVars>>
        \/ Predict(t) /\ UNCHANGED <<loadVars, dashVars>>
        \/ Proba(t) /\ UNCHANGED <<loadVars, dashVars>>
        \/ Respond(t) /\ UNCHANGED <<loadVars, dashVars>>
        \/ Finish(t) /\ UNCHANGED <<loadVars, dashVars>>

SpecServer == InitServer /\ [][NextServer]_vars

(***************************************************************************)
(* The dashboard (app1.py and pages/page*.py): data frames.  A frame is a  *)
(* sequence of rows, a row a function from column names to values, a       *)
(* column a sequence of values.  A string is the sequence of its pieces:   *)
(* the characters of a numeral, or a word where spelling plays no part.    *)
(***************************************************************************)
NaN == [t |-> "nan", m |-> 0, s |-> << >>]
Text(x) == StrV(<<x>>)

\* pd.isna
IsMissing(v) == v.t \in {"null", "nan"}

Col(d, c) == [i \in 1..Len(d) |-> d[i][c]]

\* d[c] = vals
WithCol(d, c, vals) ==
    [i \in 1..Len(d) |->
        [k \in DOMAIN d[i] \cup {c} |-> IF k = c THEN vals[i] ELSE d[i][k]]]

\* d[mask]
Where(d, keep(_)) == SelectSeq(d, keep)

\* DataFrame.from_records(..., coerce_float=True) in read_sql_query: a column
\* of numbers and NULLs becomes float64 with NaN as soon as it holds a NULL
\* or a float; a column holding a string stays a column of objects
FromRecords(col) ==
    LET kinds == {col[i].t : i \in 1..Len(col)}
    IN  IF "str" \in kinds \/ kinds \subseteq {"null"} \/ kinds \subseteq {"int"}
        THEN col
        ELSE [i \in 1..Len(col) |-> IF IsNumber(col[i]) THEN FltV(col[i].m) ELSE NaN]

\* pd.to_numeric(col, errors='coerce')
ToNumber(v) ==
    CASE IsNumber(v) -> v
      [] v.t = "str" ->
            LET r == PyFloat(v)
            IN  IF ~r.ok THEN NaN
                ELSE IF DotPos(v.s) = {} THEN [t |-> "int", m |-> r.v.m, s |-> << >>]
                ELSE r.v
      [] OTHER -> NaN

to_numeric(col) ==
    LET r == [i \in 1..Len(col) |-> ToNumber(col[i])]
    IN  IF \A i \in 1..Len(col) : r[i].t = "int" THEN r
        ELSE [i \in 1..Len(col) |-> IF IsNumber(r[i]) THEN FltV(r[i].m) ELSE NaN]

\* str(x)
PyStr(v) ==
    CASE v.t = "str" -> v
      [] IsNumber(v) -> StrV(NumChars(v))
      [] v.t = "nan" -> Text("nan")
      [] OTHER -> Text("None")

RECURSIVE Strip(_)
Strip(s) ==
    IF s = << >> THEN s
    ELSE IF Head(s) = " " THEN Strip(Tail(s))
    ELSE IF s[Len(s)] = " " THEN Strip(SubSeq(s, 1, Len(s) - 1))
    ELSE s

\* col.astype(str)
astype_str(col) == [i \in 1..Len(col) |-> PyStr(col[i])]

\* col.str.strip() of a column of strings
str_strip(col) == [i \in 1..Len(col) |-> StrV(Strip(col[i].s))]

\* col.str.lower()
LowerPiece(x) ==
    CASE x = "NaN" -> "nan" [] x = "NAN" -> "nan" [] x = "None" -> "none" [] OTHER -> x

str_lower(v) == StrV([i \in 1..Len(v.s) |-> LowerPiece(v.s[i])])

\* a dict is the sequence of its items; a key is found by == and hash, which
\* make 1 and 1.0 the same key
SameKey(a, b) == IF IsNumber(a) /\ IsNumber(b) THEN a.m = b.m ELSE a = b

InDict(dict, v) == \E i \in 1..Len(dict) : SameKey(dict[i][1], v)

Lookup(dict, v) == dict[CHOOSE i \in 1..Len(dict) : SameKey(dict[i][1], v)][2]

\* col.map(dict): a value that is no key of the dict becomes NaN
map(col, dict) ==
    [i \in 1..Len(col) |-> IF InDict(dict, col[i]) THEN Lookup(dict, col[i]) ELSE NaN]

\* col.fillna(other)
fillna(col, other) ==
    [i \in 1..Len(col) |-> IF IsMissing(col[i]) THEN other[i] ELSE col[i]]

\* the dict literals of the pages
action_labels(page) ==
    << <<IntV(1), Text(IF page \in {"page2", "page3"} THEN "Loan Originated"
                       ELSE "Loan Approved")>>,
       <<IntV(2), Text("Approved but Not Accepted")>>,
       <<IntV(3), Text("Denied")>>,
       <<IntV(8), Text("Preapproval Approved but Not Accepted")>> >>

loan_type_map ==
    << <<Text("1"), Text("Conventional (not insured or guaranteed)")>>,
       <<Text("2"), Text("FHA insured")>>,
       <<Text("3"), Text("VA guaranteed")>>,
       <<Text("4"), Text("RHS/FSA guaranteed")>> >>

purpose_map ==
    << <<Text("1"), Text("Home purchase")>>,
       <<Text("2"), Text("Home improvement")>>,
       <<StrV(<<"3", "1">>), Text("Refinancing")>>,
       <<StrV(<<"3", "2">>), Text("Cash-out refinancing")>>,
       <<Text("4"), Text("Other purpose")>> >>

\* the steps that recur in the pages' import-time cleaning
Numeric(d, c) == WithCol(d, c, to_numeric(Col(d, c)))
Stripped(d, c) == WithCol(d, c, str_strip(astype_str(Col(d, c))))
Labelled(d, page) == WithCol(d, "action_label", map(Col(d, "action_taken"), action_labels(page)))

\* variant: the loan type labels are mapped without the fallback
LoanTypeNoFallback(d) ==
    WithCol(d, "loan_type", map(astype_str(Col(d, "loan_type")), loan_type_map))

\* page5: df["loan_type"].astype(str).map(loan_type_map).fillna(df["loan_type"])
LoanTypeLabelled(d) ==
    WithCol(d, "loan_type",
            fillna(map(astype_str(Col(d, "loan_type")), loan_type_map),
                   Col(d, "loan_type")))

\* the statements between  df = load_chunked_data_from_db(...)  and the
\* dropdown options of each page module
Normalize(page, d) ==
    CASE page = "page1" ->
            Stripped(Numeric(Labelled(Numeric(d, "action_taken"), page),
                             "activity_year"), "state_code")
      [] page = "page2" ->
            LET n == Numeric(Numeric(Numeric(d, "loan_amount"),
                                     "debt_to_income_ratio"), "interest_rate")
                a == Stripped(n, "applicant_age")
                k == Where(a, LAMBDA r : str_lower(r["applicant_age"]) # Text("nan"))
                c == Stripped(Stripped(Stripped(k, "derived_sex"), "derived_race"),
                              "applicant_credit_score_type")
            IN  Labelled(Numeric(c, "action_taken"), page)
      [] page = "page3" -> Labelled(Numeric(d, "action_taken"), page)
      [] page = "page4" ->
            LET n == Numeric(Numeric(Numeric(Numeric(Numeric(Numeric(d,
                        "activity_year"), "loan_amount"), "property_value"),
                        "loan_to_value_ratio"), "interest_rate"), "action_taken")
            IN  Labelled(Stripped(Stripped(n, "state_code"), "loan_purpose"), page)
      [] page = "page5" ->
            LoanTypeLabelled(Stripped(Numeric(Numeric(d, "activity_year"),
                                              "interest_rate"),
                                      "derived_loan_product_type"))

(***************************************************************************)
(* The dashboard: the table in the store and the import of the pages.      *)
(***************************************************************************)
MaxRows == 3        \* rows in the table

\* the columns of the query that the pages compute with
BaseRow ==
    [activity_year |-> IntV(2018), state_code |-> Text("CA"),
     action_taken |-> IntV(1), loan_amount |-> IntV(200),
     interest_rate |-> FltV(4500), loan_purpose |-> IntV(1),
     loan_type |-> IntV(1), derived_race |-> Text("White"),
     derived_sex |-> Text("Male"), applicant_age |-> Text("35-44"),
     derived_loan_product_type |-> Text("Conventional:First Lien"),
     conforming_loan_limit |-> Text("C"), lien_status |-> IntV(1),
     hoepa_status |-> IntV(2), loan_to_value_ratio |-> IntV(80),
     property_value |-> IntV(250), debt_to_income_ratio |-> Text("36"),
     applicant_credit_score_type |-> IntV(1)]

\* the rows a table is made of: an approved loan; a denial stored with
\* text codes, padded text and NULL measures; a withdrawn application with
\* NULL year, the age NaN written out as text and the categories the pages
\* set aside; a second approved loan of another state and year; a denial
\* without amount and rate; a purchased loan, which has a rate
RowPool ==
    << BaseRow,
      [activity_year |-> StrV(<<"2", "0", "1", "9">>),
       state_code |-> StrV(<<" ", "TX", " ">>),
       action_taken |-> Text("3"), loan_amount |-> Null, interest_rate |-> Null,
       loan_purpose |-> IntV(5), loan_type |-> IntV(2),
       derived_race |-> Text("Race Not Available"), derived_sex |-> Text("Female"),
       applicant_age |-> Text("45-54"),
       derived_loan_product_type |-> StrV(<<"FHA:First Lien", " ">>),
       conforming_loan_limit |-> Text("NC"), lien_status |-> IntV(2),
       loan_to_value_ratio |-> Null, property_value |-> Null,
       debt_to_income_ratio |-> Text("Exempt")] @@ BaseRow,
      [activity_year |-> Null, action_taken |-> IntV(4), loan_amount |-> IntV(100),
       interest_rate |-> FltV(3000), loan_purpose |-> IntV(31),
       loan_type |-> Text("5"), derived_race |-> Text("Joint"),
       derived_sex |-> Text("Sex Not Available"), applicant_age |-> Text("NaN"),
       hoepa_status |-> IntV(3)] @@ BaseRow,
      [activity_year |-> IntV(2019), state_code |-> Text("TX"),
       loan_amount |-> IntV(300), interest_rate |-> FltV(5500),
       loan_purpose |-> IntV(2), derived_race |-> Text("Asian"),
       applicant_age |-> Text("25-34")] @@ BaseRow,
      [state_code |-> Text("TX"), action_taken |-> IntV(3), loan_amount |-> Null,
       interest_rate |-> Null, derived_sex |-> Text("Female"),
       applicant_age |-> Text("45-54")] @@ BaseRow,
      [action_taken |-> IntV(6), loan_amount |-> IntV(400),
       interest_rate |-> FltV(6500)] @@ BaseRow >>

\* the tables of at most n rows taken from the pool rows i, i+1, ... in
\* that order
RECURSIVE TablesFrom(_, _)
TablesFrom(i, n) ==
    IF i > Len(RowPool) \/ n = 0 THEN {<< >>}
    ELSE TablesFrom(i + 1, n)
         \cup {<<RowPool[i]>> \o t : t \in TablesFrom(i + 1, n - 1)}

Tables == TablesFrom(1, MaxRows)

Columns == DOMAIN BaseRow

\* load_chunked_data_from_db(..., chunksize=100000, max_rows=2500000) of a
\* table that fits one chunk: every row, in order, under the index 0, 1, ...
LoadedFrame(t) ==
    LET cols == [c \in Columns |-> FromRecords([i \in 1..Len(t) |-> t[i][c]])]
    IN  [i \in 1..Len(t) |->
            [k \in Columns \cup {"index"} |->
                IF k = "index" THEN IntV(i - 1) ELSE cols[k][i]]]

\* app1.py imports four page modules; page3_risk_analysis is imported by
\* nothing and is followed as a module imported on its own
AppPages == <<"page1", "page2", "page4", "page5">>
ImportOrders == {AppPages, <<"page3">>}

\* sorted(df[c].dropna().unique())
Options1(d, c) == {d[i][c] : i \in {j \in 1..Len(d) : ~IsMissing(d[j][c])}}

\* what the module-level code after the cleaning raises, "" for nothing:
\* page1 divides by len(df) and takes min(years); page5 takes min(years)
ImportError(page, d) ==
    CASE page = "page1" /\ Len(d) = 0 -> "ZeroDivisionError"
      [] page \in {"page1", "page5"} /\ Options1(d, "activity_year") = {} -> "ValueError"
      [] OTHER -> ""

InitDash ==
    /\ table \in Tables
    /\ order \in ImportOrders
    /\ imported = 0 /\ dfs = << >> /\ db_loads = 0 /\ crashed = FALSE
    /\ layout = << >> /\ out = NoCall

Serving == ~crashed /\ imported = Len(order) /\ imported > 0

(***************************************************************************)
(* The dashboard: what the callbacks compute with.                         *)
(***************************************************************************)
\* variant: every argument counts as a selection
TruthyAlways(v) == TRUE

\* bool(x) of a callback argument or a float
Truthy(v) ==
    CASE v.t \in {"null"} -> FALSE
      [] v.t \in {"str", "list"} -> v.s # << >>
      [] IsNumber(v) -> v.m # 0
      [] OTHER -> TRUE

\* a list handed in by a multi-select dropdown
ListV(items) == [t |-> "list", m |-> 0, s |-> items]

\* col.isin(list)
isin(v, list) == \E i \in 1..Len(list.s) : SameKey(list.s[i], v)

\* the order of sorted() and of group keys: numbers by value, strings piece
\* by piece in the order of Alphabet
Alphabet ==
    <<" ", "-", ".", "0", "1", "2", "25-34", "3", "35-44", "4", "45-54", "5",
      "6", "7", "8", "9", "Approved but Not Accepted", "Asian", "CA",
      "Cash-out refinancing", "Conventional:First Lien", "Denied",
      "FHA:First Lien", "Female", "Home improvement", "Home purchase", "Joint",
      "Loan Approved", "Loan Originated", "Male", "None", "Other purpose",
      "Preapproval Approved but Not Accepted", "Race Not Available",
      "Refinancing", "Sex Not Available", "TX", "White", "nan">>

Rank(x) == CHOOSE i \in 1..Len(Alphabet) : Alphabet[i] = x

RECURSIVE LexLess(_, _)
LexLess(a, b) ==
    IF b = << >> THEN FALSE
    ELSE IF a = << >> THEN TRUE
    ELSE IF Head(a) = Head(b) THEN LexLess(Tail(a), Tail(b))
    ELSE Rank(Head(a)) < Rank(Head(b))

Less(a, b) ==
    IF IsNumber(a) /\ IsNumber(b) THEN a.m < b.m
    ELSE IF IsNumber(a) THEN TRUE
    ELSE IF IsNumber(b) THEN FALSE
    ELSE LexLess(a.s, b.s)

RECURSIVE Sorted(_)
Sorted(S) ==
    IF S = {} THEN << >>
    ELSE LET least == CHOOSE x \in S : \A y \in S \ {x} : Less(x, y)
         IN  <<least>> \o Sorted(S \ {least})

\* d.groupby(c): one group per value of c that is not missing, in key order
groupby(d, c) ==
    LET ks == Sorted(Options1(d, c))
    IN  [i \in 1..Len(ks) |->
            [key |-> ks[i], rows |-> Where(d, LAMBDA r : r[c] = ks[i])]]

GroupKeys(g) == [i \in 1..Len(g) |-> g[i].key]

\* the values of a column that take part in a mean or a sum
Present(col) == SelectSeq(col, LAMBDA v : IsNumber(v))

RECURSIVE SumMilli(_)
SumMilli(col) == IF col = << >> THEN 0 ELSE Head(col).m + SumMilli(Tail(col))

\* col.mean(): NaN when no value is present
mean(col) ==
    LET p == Present(col)
    IN  IF p = << >> THEN NaN ELSE FltV(SumMilli(p) \div Len(p))

\* col.sum(): 0 when no value is present
sum(col) == FltV(SumMilli(Present(col)))

\* a / b * 100 of two counts
Percent(a, b) == FltV((a * 100000) \div b)

\* rounding of f"{x:.0f}"
PyRound0(x) ==
    LET a == IF x.m >= 0 THEN x.m ELSE -x.m
        q == a \div 1000
        r == a % 1000
        h == IF r > 500 \/ (r = 500 /\ q % 2 = 1) THEN q + 1 ELSE q
    IN  FltV((IF x.m >= 0 THEN 1 ELSE -1) * h * 1000)

\* what a callback returns for one Output: a string or a figure
Piece(kind, fmt, k, v, data) ==
    [kind |-> kind, fmt |-> fmt, k |-> k, v |-> v, data |-> data]

\* a string literal
Lit(x) == Piece("text", "lit", Text(x), Null, << >>)
\* f"{v:.2f}%", "nan%" for NaN
Pct2(v) == Piece("text", "{:.2f}%", Null, IF IsNumber(v) THEN PyRound2(v) ELSE v, << >>)
\* f"${v:,.0f}", "$nan" for NaN
Usd0(v) == Piece("text", "${:,.0f}", Null, IF IsNumber(v) THEN PyRound0(v) ELSE v, << >>)
\* f"{v}%" of a float: its shortest repr
PctRepr(v) == Piece("text", "{}%", Null, v, << >>)
\* f"{n:,}"
Count(n) == Piece("text", "{:,}", Null, IntV(n), << >>)
\* f"{k}: {v:.2f}%"
Top(k, v) == Piece("text", "{}: {:.2f}%", k, IF IsNumber(v) THEN PyRound2(v) ELSE v, << >>)
\* ", ".join(keys)
Joined(keys) == Piece("text", "join", Null, Null, keys)
\* the {} returned in place of a figure
EmptyFig == Piece("fig", "{}", Null, Null, << >>)
\* a plotly figure over the series data
Fig(name, data) == Piece("fig", name, Null, Null, data)

\* what an invocation may do: the view it aggregated, the module-level
\* frame as the invocation left it, and the values returned or the exception;
\* a callback is the set of the outcomes the installed libraries allow
Returns(view, d, ret) == [view |-> view, df |-> d, ret |-> ret, exc |-> ""]
Raises(view, d, exc) == [view |-> view, df |-> d, ret |-> << >>, exc |-> exc]

(***************************************************************************)
(* The dashboard: filtering.  Every callback narrows its frame by one      *)
(* boolean mask after the other,  dff = dff[mask] ; a dropdown whose value *)
(* is falsy (None, an empty list) contributes no mask.                     *)
(***************************************************************************)
Mask(col, op, arg) == [col |-> col, op |-> op, arg |-> arg]

\* the value of one row under a mask; a comparison with NaN or None is False
Holds(r, f) ==
    LET v == r[f.col]
    IN  CASE f.op = "between" ->
                /\ IsNumber(v)
                /\ v.m >= f.arg.s[1].m
                /\ v.m <= f.arg.s[2].m
          [] f.op = "==" -> ~IsMissing(v) /\ SameKey(v, f.arg)
          [] f.op = "isin" -> isin(v, f.arg)

\* the masks of an invocation, in the order of the code
Masks(cb, args) ==
    LET opt(col, op, a) == IF Truthy(a) THEN <<Mask(col, op, a)>> ELSE << >>
    IN  CASE cb = "update_page" ->
                <<Mask("activity_year", "between", args[1])>>
                \o opt("state_code", "==", args[2])
          [] cb = "update_demographics" ->
                opt("derived_race", "isin", args[1])
                \o opt("applicant_age", "isin", args[2])
                \o opt("derived_sex", "isin", args[3])
          [] cb = "update_risk" ->
                opt("conforming_loan_limit", "isin", args[1])
                \o opt("loan_type", "isin", args[2])
                \o opt("lien_status", "isin", args[3])
                \o opt("hoepa_status", "isin", args[4])
          [] cb = "update_geographic_insights" ->
                opt("activity_year", "==", args[1])
                \o opt("state_code", "==", args[2])
                \o opt("loan_purpose", "==", args[3])
          [] cb = "update_interest_histograms" ->
                <<Mask("activity_year", "between", args[1])>>
                \o opt("derived_loan_product_type", "==", args[2])
                \o opt("loan_type", "==", args[3])

\* variant: every mask is taken of the whole frame, the last one wins
ApplyLast(d, fs) ==
    IF fs = << >> THEN d
    ELSE Where(d, LAMBDA r : Holds(r, fs[Len(fs)]))

\* dff = dff[mask], mask after mask
RECURSIVE Apply(_, _)
Apply(d, fs) ==
    IF fs = << >> THEN d
    ELSE Apply(Where(d, LAMBDA r : Holds(r, Head(fs))), Tail(fs))

(***************************************************************************)
(* pages/page1_overview.py: update_page                                    *)
(***************************************************************************)
Is(v, n) == IsNumber(v) /\ v.m = n * 1000

\* d.groupby(c).size()
size_by(d, c) ==
    LET g == groupby(d, c)
    IN  [i \in 1..Len(g) |-> [key |-> g[i].key, value |-> IntV(Len(g[i].rows))]]

total_by_state(d) == size_by(d, "state_code")

approved_by_state(d) ==
    size_by(Where(d, LAMBDA r : Is(r["action_taken"], 1)), "state_code")

SeriesKeys(a) == {a[i].key : i \in 1..Len(a)}
At(a, k) == a[CHOOSE i \in 1..Len(a) : a[i].key = k].value

\* a / b * 100 of two series: pandas aligns them on the union of their
\* keys, in key order; a key that one side lacks gets NaN
approval_rate_by_state(a, b) ==
    LET ks == Sorted(SeriesKeys(a) \cup SeriesKeys(b))
    IN  [i \in 1..Len(ks) |->
            [key |-> ks[i],
             value |-> IF ks[i] \in SeriesKeys(a) /\ ks[i] \in SeriesKeys(b)
                       THEN Percent(At(a, ks[i]).m \div 1000, At(b, ks[i]).m \div 1000)
                       ELSE NaN]]

\* filtered_df.groupby(['activity_year', 'action_label']).size()
yearly(d) ==
    LET g == groupby(d, "activity_year")
    IN  Flatten([i \in 1..Len(g) |->
                    LET h == size_by(g[i].rows, "action_label")
                    IN  [j \in 1..Len(h) |->
                            [key |-> <<g[i].key, h[j].key>>, value |-> h[j].value]]])

state_group(d, map_metric) ==
    CASE map_metric = "count" -> total_by_state(d)
      [] map_metric = "approval_rate" ->
            approval_rate_by_state(approved_by_state(d), total_by_state(d))
      [] map_metric = "loan_amount" ->
            LET g == groupby(d, "state_code")
            IN  [i \in 1..Len(g) |->
                    [key |-> g[i].key, value |-> sum(Col(g[i].rows, "loan_amount"))]]

update_page(d, year_range, selected_state, map_metric) ==
    LET filtered_df == Apply(d, Masks("update_page", <<year_range, selected_state>>))
        total_apps == Len(filtered_df)
        approved == Len(Where(filtered_df, LAMBDA r : Is(r["action_taken"], 1)))
        avg_loan == mean(Col(filtered_df, "loan_amount"))
        avg_rate == mean(Col(filtered_df, "interest_rate"))
        approval_rate == IF total_apps # 0 THEN Pct2(Percent(approved, total_apps))
                         ELSE Lit("0%")
        avg_loan_fmt == IF Truthy(avg_loan) THEN Usd0(avg_loan) ELSE Lit("$0")
        avg_rate_fmt == IF Truthy(avg_rate) THEN Pct2(avg_rate) ELSE Lit("0%")
        pie_fig == Fig("pie", Col(filtered_df, "action_label"))
        bar_fig == Fig("bar", yearly(filtered_df))
        line_fig == Fig("line", size_by(filtered_df, "activity_year"))
        map_fig == Fig("choropleth", state_group(filtered_df, map_metric))
    IN  IF filtered_df = << >>
        THEN {Returns(filtered_df, d,
                      <<EmptyFig, EmptyFig, EmptyFig,
                        Lit("0%"), Lit("0%"), Lit("$0"), Lit("0%")>>)}
        ELSE {Returns(filtered_df, d,
                      <<pie_fig, bar_fig, map_fig, line_fig, Count(total_apps),
                        approval_rate, avg_loan_fmt, avg_rate_fmt>>)}

\* the "Initial KPI Values" of the module and the strings the layout makes
\* of them: f"{total_apps:,}", f"{approval_rate}%" of the rate rounded to 2
\* places, f"${avg_loan_amount:,.0f}", f"{avg_interest_rate:.2f}%"
initial_kpis(d) ==
    LET total_apps == Len(d)
        approved == Len(Where(d, LAMBDA r : Is(r["action_taken"], 1)))
        avg_loan_amount == mean(Col(d, "loan_amount"))
        avg_interest_rate ==
            mean(Col(Where(d, LAMBDA r : isin(r["action_taken"],
                                               ListV(<<IntV(1), IntV(2), IntV(8)>>))),
                     "interest_rate"))
        approval_rate == PyRound2(Percent(approved, total_apps))
    IN  <<Count(total_apps), PctRepr(approval_rate), Usd0(avg_loan_amount),
          Pct2(avg_interest_rate)>>

(***************************************************************************)
(* The import of the page modules.                                         *)
(***************************************************************************)
\* variant: the page takes over the frame an earlier page has loaded
ImportPageShared ==
    LET page == order[imported + 1]
        first == imported = 0
        d == Normalize(page, IF first THEN LoadedFrame(table) ELSE dfs[order[1]])
    IN  /\ ~crashed /\ imported < Len(order)
        /\ db_loads' = IF first THEN db_loads + 1 ELSE db_loads
        /\ IF ImportError(page, d) = ""
           THEN /\ dfs' = (page :> d) @@ dfs
                /\ imported' = imported + 1
                /\ layout' = IF page = "page1" THEN initial_kpis(d) ELSE layout
                /\ UNCHANGED crashed
           ELSE /\ crashed' = TRUE
                /\ UNCHANGED <<dfs, imported, layout>>
        /\ UNCHANGED <<table, order, out>>

\* from pages import ...: the next page module runs its top-level code
ImportPage ==
    LET page == order[imported + 1]
        d == Normalize(page, LoadedFrame(table))
    IN  /\ ~crashed /\ imported < Len(order)
        /\ db_loads' = db_loads + 1
        /\ IF ImportError(page, d) = ""
           THEN /\ dfs' = (page :> d) @@ dfs
                /\ imported' = imported + 1
                /\ layout' = IF page = "page1" THEN initial_kpis(d) ELSE layout
                /\ UNCHANGED crashed
           ELSE /\ crashed' = TRUE
                /\ UNCHANGED <<dfs, imported, layout>>
        /\ UNCHANGED <<table, order, out>>

(***************************************************************************)
(* pages/page2_demographics.py: update_demographics                        *)
(***************************************************************************)
NoRace == ListV(<<Text("Free Form Text Only"), Text("Joint"), Text("Race Not Available")>>)
NoSex == ListV(<<Text("Sex Not Available")>>)

\* the "Base cleaning" mask
base(d) ==
    Where(d, LAMBDA r : /\ ~isin(r["derived_race"], NoRace)
                        /\ ~isin(r["derived_sex"], NoSex)
                        /\ str_lower(r["applicant_age"]) # Text("nan"))

\* d.groupby(c)['interest_rate'].mean()
rate_by(d, c) ==
    LET g == groupby(d, c)
    IN  [i \in 1..Len(g) |->
            [key |-> g[i].key, value |-> mean(Col(g[i].rows, "interest_rate"))]]

\* series.max(), NaN values skipped
SeriesMax(a) ==
    LET p == {i \in 1..Len(a) : IsNumber(a[i].value)}
    IN  IF p = {} THEN NaN
        ELSE a[CHOOSE i \in p : \A j \in p : a[j].value.m <= a[i].value.m].value

\* series.idxmax(): the first key that holds the maximum
idxmax(a) ==
    LET p == {i \in 1..Len(a) : IsNumber(a[i].value) /\ a[i].value = SeriesMax(a)}
    IN  IF p = {} THEN NaN ELSE a[CHOOSE i \in p : \A j \in p : i <= j].key

\* dff.groupby(['derived_race', 'applicant_age', 'derived_sex'])['interest_rate'].mean()
bubble_df(d) ==
    LET g == groupby(d, "derived_race")
    IN  Flatten([i \in 1..Len(g) |->
          LET h == groupby(g[i].rows, "applicant_age")
          IN  Flatten([j \in 1..Len(h) |->
                LET a == rate_by(h[j].rows, "derived_sex")
                IN  [k \in 1..Len(a) |->
                        [key |-> <<g[i].key, h[j].key, a[k].key>>,
                         value |-> a[k].value]]])])

\* idxmax of a series without a value raises ValueError or, with older
\* pandas, yields NaN; px.scatter rejects a NaN marker size with ValueError
\* where plotly validates the sizes
update_demographics(d, race_val, age_val, sex_val) ==
    LET dff == Apply(base(d), Masks("update_demographics", <<race_val, age_val, sex_val>>))
        sex_grp == rate_by(dff, "derived_sex")
        race_grp == rate_by(dff, "derived_race")
        age_grp == rate_by(dff, "applicant_age")
        bubbles == bubble_df(dff)
        answer == Returns(dff, d,
                          <<Top(idxmax(sex_grp), SeriesMax(sex_grp)),
                            Top(idxmax(race_grp), SeriesMax(race_grp)),
                            Top(idxmax(age_grp), SeriesMax(age_grp)),
                            Fig("scatter", bubbles)>>)
    IN  IF dff = << >>
        THEN {Returns(dff, d, <<Lit("N/A"), Lit("N/A"), Lit("N/A"), EmptyFig>>)}
        ELSE IF \E k \in 1..Len(bubbles) : ~IsNumber(bubbles[k].value)
        THEN {answer, Raises(dff, d, "ValueError")}
        ELSE {answer}

(***************************************************************************)
(* pages/page3_risk_analysis.py: update_risk                               *)
(***************************************************************************)
update_risk(d, limit_val, type_val, lien_val, hoepa_val) ==
    LET filtered_df == Apply(d, Masks("update_risk",
                                      <<limit_val, type_val, lien_val, hoepa_val>>))
        avg_ltv == Pct2(mean(Col(filtered_df, "loan_to_value_ratio")))
        avg_property == Usd0(mean(Col(filtered_df, "property_value")))
        non_conf == Len(Where(filtered_df,
                              LAMBDA r : r["conforming_loan_limit"] = Text("NC")))
        non_conf_fmt == Pct2(Percent(non_conf, Len(filtered_df)))
        plotted == Col(filtered_df, "index")
    IN  IF filtered_df = << >>
        THEN {Returns(filtered_df, d,
                      <<Lit("0%"), Lit("$0"), Lit("0%"), EmptyFig, EmptyFig, EmptyFig>>)}
        ELSE {Returns(filtered_df, d,
                      <<avg_ltv, avg_property, non_conf_fmt, Fig("scatter", plotted),
                        Fig("histogram", plotted), Fig("box", plotted)>>)}

(***************************************************************************)
(* pages/page4_geographic.py: update_geographic_insights                   *)
(***************************************************************************)
\* a frame object a local name is bound to: its rows, and whether it is an
\* object of its own or the module-level df itself
Frame(rows, own) == [rows |-> rows, own |-> own]

\* variant: dff = df
copyNone(d) == Frame(d, FALSE)

\* df.copy()
copy(d) == Frame(d, TRUE)

\* dff[mask]: a new object whenever a mask is applied
Masked(f, fs) == Frame(Apply(f.rows, fs), f.own \/ fs # << >>)

\* dff['loan_purpose'].astype(str).map(purpose_map).fillna(dff['loan_purpose'])
PurposeLabelled(d) ==
    WithCol(d, "loan_purpose",
            fillna(map(astype_str(Col(d, "loan_purpose")), purpose_map),
                   Col(d, "loan_purpose")))

\* dff.groupby(c).agg(loan_amount mean, property_value mean,
\*                    interest_rate mean, application_count)
stats_by(d, c) ==
    LET g == groupby(d, c)
    IN  [i \in 1..Len(g) |->
            [key |-> g[i].key,
             loan_amount |-> mean(Col(g[i].rows, "loan_amount")),
             property_value |-> mean(Col(g[i].rows, "property_value")),
             interest_rate |-> mean(Col(g[i].rows, "interest_rate")),
             application_count |->
                IntV(Len(Where(g[i].rows, LAMBDA r : ~IsMissing(r["state_code"]))))]]

\* the rows of a stats frame by descending metric, NaN last, ties in the
\* order they had
RECURSIVE Descending(_, _)
Descending(a, metric) ==
    IF a = << >> THEN << >>
    ELSE LET p == {i \in 1..Len(a) : IsNumber(a[i][metric])}
             top == IF p = {} THEN 1
                    ELSE CHOOSE i \in p :
                            /\ \A j \in p : a[j][metric].m <= a[i][metric].m
                            /\ \A j \in p : a[j][metric].m = a[i][metric].m => i <= j
         IN  <<a[top]>> \o Descending(SubSeq(a, 1, top - 1) \o SubSeq(a, top + 1, Len(a)),
                                     metric)

\* frame.nlargest(n, metric)
nlargest(a, n, metric) == SubSeq(Descending(a, metric), 1, Min(n, Len(a)))

update_geographic_insights(d, year, state, purpose, selected_metric) ==
    LET masked == Masked(copy(d), Masks("update_geographic_insights",
                                        <<year, state, purpose>>))
        labelled == PurposeLabelled(masked.rows)
        dff == Where(labelled, LAMBDA r : /\ r["loan_purpose"] # Text("5")
                                          /\ r["loan_purpose"] # Text("Not applicable"))
        state_stats == stats_by(dff, "state_code")
        purpose_stats == stats_by(dff, "loan_purpose")
        map_fig == Fig("choropleth", state_stats)
        bar_fig == Fig("bar", Descending(purpose_stats, selected_metric))
        top_states == GroupKeys(nlargest(state_stats, 5, "application_count"))
        top_states_str == IF top_states # << >> THEN Joined(top_states) ELSE Lit("N/A")
        highest_loan_state == nlargest(state_stats, 1, "loan_amount")
        highest_state_str == IF highest_loan_state # << >>
                             THEN Piece("text", "{}", highest_loan_state[1].key, Null, << >>)
                             ELSE Lit("N/A")
    IN  {Returns(dff, IF masked.own THEN d ELSE labelled,
                 <<map_fig, bar_fig, top_states_str, highest_state_str, Count(Len(dff))>>)}

(***************************************************************************)
(* pages/page5_denials.py: update_interest_histograms                      *)
(***************************************************************************)
\* the function builds its two figures and ends without a return statement:
\* it returns None, written << >>
update_interest_histograms(d, year_range, prod, loantype) ==
    LET dff == Apply(d, Masks("update_interest_histograms", <<year_range, prod, loantype>>))
    IN  {Returns(dff, d, << >>)}

(***************************************************************************)
(* The dashboard: the selections a browser sends and the dispatch of the   *)
(* callbacks by Dash.                                                      *)
(***************************************************************************)
Years == {2018, 2019}
YearRanges == {ListV(<<IntV(lo), IntV(hi)>>) : lo \in Years, hi \in Years} \ 
              {ListV(<<IntV(2019), IntV(2018)>>)}
StateChoices == {Null, Text("CA"), Text("TX")}
MapMetrics == {"count", "approval_rate", "loan_amount"}
RaceChoices == {Null, ListV(<< >>), ListV(<<Text("White")>>), ListV(<<Text("Asian")>>),
                ListV(<<Text("White"), Text("Asian")>>)}
AgeChoices == {Null, ListV(<<Text("35-44")>>), ListV(<<Text("25-34")>>)}
SexChoices == {Null, ListV(<<Text("Male")>>), ListV(<<Text("Female")>>)}
LimitChoices == {Null, ListV(<<Text("C")>>), ListV(<<Text("NC")>>)}
TypeChoices == {Null, ListV(<<IntV(1)>>), ListV(<<IntV(2)>>)}
LienChoices == {Null, ListV(<<IntV(1)>>), ListV(<<IntV(2)>>)}
HoepaChoices == {Null, ListV(<<IntV(2)>>), ListV(<<IntV(3)>>)}
YearChoices == {Null, IntV(2018), IntV(2019)}
PurposeChoices == {Null, Text("1"), Text("5"), StrV(<<"3", "1">>)}
GeoMetrics == {"loan_amount", "property_value", "interest_rate", "application_count"}
ProductChoices == {Null, Text("Conventional:First Lien"), Text("FHA:First Lien")}
LoanTypeChoices == {Null, Text("Conventional (not insured or guaranteed)"),
                    Text("FHA insured")}
Tabs == {"overview", "demographics", "geographic", "rate", "risk"}

\* the module each callback is defined in
PageOf(cb) ==
    CASE cb = "update_page" -> "page1"
      [] cb = "update_demographics" -> "page2"
      [] cb = "update_risk" -> "page3"
      [] cb = "update_geographic_insights" -> "page4"
      [] cb = "update_interest_histograms" -> "page5"

Callbacks == {"update_page", "update_demographics", "update_risk",
              "update_geographic_insights", "update_interest_histograms"}

\* the number of Output(...) of each @callback
Outputs(cb) ==
    CASE cb = "update_page" -> 8
      [] cb = "update_demographics" -> 4
      [] cb = "update_risk" -> 6
      [] cb = "update_geographic_insights" -> 5
      [] cb = "update_interest_histograms" -> 2
      [] cb = "render_tab_content" -> 1

\* Dash takes the value of a callback with several Outputs only if it is a
\* list or tuple with one value per Output
Dispatched(cb, args, o) ==
    [cb |-> cb, args |-> args, view |-> o.view, ret |-> o.ret,
     exc |-> IF o.exc # "" THEN o.exc
             ELSE IF Outputs(cb) > 1 /\ Len(o.ret) # Outputs(cb)
             THEN "InvalidCallbackReturnValue"
             ELSE ""]

\* the invocation cb(args) with outcome o
Invoke(cb, args, o) ==
    /\ out' = Dispatched(cb, args, o)
    /\ dfs' = [dfs EXCEPT ![PageOf(cb)] = o.df]
    /\ UNCHANGED <<table, order, imported, db_loads, crashed, layout>>

Ready(cb) == Serving /\ out = NoCall /\ PageOf(cb) \in DOMAIN dfs

UpdatePage ==
    /\ Ready("update_page")
    /\ \E yr \in YearRanges, st \in StateChoices, mm \in MapMetrics :
          \E o \in update_page(dfs["page1"], yr, st, mm) :
             Invoke("update_page", <<yr, st, mm>>, o)

UpdateDemographics ==
    /\ Ready("update_demographics")
    /\ \E rv \in RaceChoices, av \in AgeChoices, sv \in SexChoices :
          \E o \in update_demographics(dfs["page2"], rv, av, sv) :
             Invoke("update_demographics", <<rv, av, sv>>, o)

UpdateRisk ==
    /\ Ready("update_risk")
    /\ \E lv \in LimitChoices, tv \in TypeChoices, nv \in LienChoices,
          hv \in HoepaChoices :
          \E o \in update_risk(dfs["page3"], lv, tv, nv, hv) :
             Invoke("update_risk", <<lv, tv, nv, hv>>, o)

UpdateGeographicInsights ==
    /\ Ready("update_geographic_insights")
    /\ \E yr \in YearChoices, st \in StateChoices, pu \in PurposeChoices,
          gm \in GeoMetrics :
          \E o \in update_geographic_insights(dfs["page4"], yr, st, pu, gm) :
             Invoke("update_geographic_insights", <<yr, st, pu, gm>>, o)

UpdateInterestHistograms ==
    /\ Ready("update_interest_histograms")
    /\ \E yr \in YearRanges, pr \in ProductChoices, lt \in LoanTypeChoices :
          \E o \in update_interest_histograms(dfs["page5"], yr, pr, lt) :
             Invoke("update_interest_histograms", <<yr, pr, lt>>, o)

\* app1.py render_tab_content: the layout object the page module built at
\* import is handed out
render_tab_content(active_tab) ==
    CASE active_tab = "overview" -> Piece("layout", "page1", Null, Null, << >>)
      [] active_tab = "demographics" -> Piece("layout", "page2", Null, Null, << >>)
      [] active_tab = "geographic" -> Piece("layout", "page4", Null, Null, << >>)
      [] active_tab = "rate" -> Piece("layout", "page5", Null, Null, << >>)
      [] OTHER -> Piece("layout", "Page Not Found", Null, Null, << >>)

RenderTab ==
    /\ Serving /\ out = NoCall /\ order = AppPages
    /\ \E tab \in Tabs :
          out' = [cb |-> "render_tab_content", args |-> <<tab>>, view |-> << >>,
                  ret |-> <<render_tab_content(tab)>>, exc |-> ""]
    /\ UNCHANGED <<table, order, imported, dfs, db_loads, crashed, layout>>

\* the response has gone to the browser
Deliver ==
    /\ out # NoCall
    /\ out' = NoCall
    /\ UNCHANGED <<table, order, imported, dfs, db_loads, crashed, layout>>

InitDashboard == NoApi /\ NoLoad /\ InitDash

NextDash ==
    \/ ImportPage /\ UNCHANGED <<apiVars, loadVars>>
    \/ UpdatePage /\ UNCHANGED <<apiVars, loadVars>>
    \/ UpdateDemographics /\ UNCHANGED <<apiVars, loadVars>>
    \/ UpdateRisk /\ UNCHANGED <<apiVars, loadVars>>
    \/ UpdateGeographicInsights /\ UNCHANGED <<apiVars, loadVars>>
    \/ UpdateInterestHistograms /\ UNCHANGED <<apiVars, loadVars>>
    \/ RenderTab /\ UNCHANGED <<apiVars, loadVars>>
    \/ Deliver /\ UNCHANGED <<apiVars, loadVars>>

SpecDash == InitDashboard /\ [][NextDash]_vars

(***************************************************************************)
(* Properties of the prediction API (under Spec).                          *)
(***************************************************************************)
\* the feature vector has been passed to a model call, or is about to be
Handed(r) == r.pc = "predict" \/ r.invoked > 0

\* the feature list of the handler has been evaluated
AssemblyRan(r) ==
    /\ r.exc # "FileNotFoundError"
    /\ \/ r.pc \in {"predict", "proba", "respond", "done"}
       \/ r.pc = "load" /\ r.endpoint # "/predict_property_value"

MissingPos(r) == {i \in 1..Len(Keys(r.endpoint)) : Keys(r.endpoint)[i] \notin DOMAIN r.data}
Least(S) == CHOOSE i \in S : \A j \in S : i <= j

\* positions whose value the declared conversion rejects
RejectedPos(r) ==
    {i \in 1..Len(Keys(r.endpoint)) :
        /\ Keys(r.endpoint)[i] \in DOMAIN r.data
        /\ ~Coerce(Coercers(r.endpoint)[i], r.data[Keys(r.endpoint)[i]]).ok}

\* the value the handler's conversions make of the body's value for the
\* i-th key: int()/float() in predict_property_value, the common array type
\* in predict, the value itself in the other two
Converted(r, i) ==
    LET ks == Keys(r.endpoint)
    IN  IF r.endpoint = "/predict"
        THEN NpCast(NpDtype({r.data[ks[j]].t : j \in 1..Len(ks)}), r.data[ks[i]])
        ELSE Coerce(Coercers(r.endpoint)[i], r.data[ks[i]]).v

\* C1: on each of the four endpoints, when the body has every key of the
\* feature list, the vector handed to the model has at each position i the
\* converted value of body[keys[i]]: nothing reordered, dropped, duplicated
\* or taken from another key.
C1_SchemaOrder ==
    \A t \in Threads :
        LET r == req[t]
        IN  (r.pc # "idle" /\ Handed(r)) =>
               /\ DOMAIN r.vector = 1..Len(Keys(r.endpoint))
               /\ \A i \in 1..Len(Keys(r.endpoint)) :
                     /\ Keys(r.endpoint)[i] \in DOMAIN r.data
                     /\ r.vector[i] = Converted(r, i)

\* a property-value request whose body carries the string "7" for an integer
\* field and an unused extra key had its vector handed to the model
C1_Witness ==
    \E t \in Threads :
        LET r == req[t]
        IN  /\ r.endpoint = "/predict_property_value"
            /\ r.invoked > 0
            /\ ExtraKey \in DOMAIN r.data
            /\ \E i \in 1..Len(r.vector) :
                  /\ r.data[PropertyValueKeys[i]] = StrV(<<"7">>)
                  /\ r.vector[i] = IntV(7)

\* C2 as stated: a body lacking a key of the feature list makes the
\* evaluation fail with the missing-key error naming the first missing key
\* in list order, and the model is not invoked.
C2_AsStated ==
    \A t \in Threads :
        LET r == req[t]
        IN  (r.pc # "idle" /\ AssemblyRan(r) /\ MissingPos(r) # {}) =>
               /\ r.invoked = 0
               /\ r.pc = "done"
               /\ r.exc = "KeyError"
               /\ r.arg = Keys(r.endpoint)[Least(MissingPos(r))]

\* C2 amended: such a request fails before any model call and nothing is
\* substituted for the key; the error is the KeyError naming the first
\* missing key, unless a key earlier in the list carries a value that its
\* int()/float() call rejects, in which case it is the error of the first
\* such call.
C2_FirstFailure ==
    \A t \in Threads :
        LET r == req[t]
            j == Least(MissingPos(r))
            bad == {i \in RejectedPos(r) : i < j}
        IN  (r.pc # "idle" /\ AssemblyRan(r) /\ MissingPos(r) # {}) =>
               /\ r.invoked = 0
               /\ r.features = << >>
               /\ r.vector = << >>
               /\ r.pc = "done"
               /\ r.status = 500
               /\ IF bad = {}
                  THEN r.exc = "KeyError" /\ r.arg = Keys(r.endpoint)[j]
                  ELSE LET c == Coerce(Coercers(r.endpoint)[Least(bad)],
                                       r.data[Keys(r.endpoint)[Least(bad)]])
                       IN  r.exc = c.exc /\ r.arg = c.arg

\* a request that lacks a key after a rejected value failed on the value
C2_Witness ==
    \E t \in Threads :
        LET r == req[t]
        IN  /\ r.pc = "done"
            /\ MissingPos(r) # {}
            /\ r.exc = "ValueError"
            /\ r.invoked = 0

\* C3: a request whose body lacks a required key is answered with a 4xx
\* status and an error that names the missing field, on every endpoint.
C3_MissingKeyIs4xx ==
    \A t \in Threads :
        LET r == req[t]
        IN  (r.pc = "done" /\ r.exc = "KeyError") =>
               /\ r.status \in 400..499
               /\ r.arg \in {Keys(r.endpoint)[i] : i \in MissingPos(r)}

\* C4: every value is converted to the declared numeric type; a value that
\* cannot be converted fails the request before the model is invoked, and a
\* non-numeric value never reaches the model.
C4_OnlyNumbersReachModel ==
    \A t \in Threads :
        LET r == req[t]
        IN  /\ r.invoked > 0 =>
                  \A i \in 1..Len(r.vector) : IsNumber(r.vector[i])
            /\ (r.pc # "idle" /\ AssemblyRan(r) /\ MissingPos(r) = {}
                  /\ \E k \in DOMAIN r.data \ {ExtraKey} : ~PyFloat(r.data[k]).ok) =>
                  /\ r.invoked = 0
                  /\ r.pc = "done" => r.exc \in {"ValueError", "TypeError"}

ClaimedLength(e) ==
    CASE e = "/predict" -> 45
      [] e = "/predict_borrower_risk" -> 38
      [] e = "/predict_interest_rate" -> 30
      [] e = "/predict_property_value" -> 49

ActualLength(e) ==
    CASE e = "/predict" -> 45
      [] e = "/predict_borrower_risk" -> 38
      [] e = "/predict_interest_rate" -> 30
      [] e = "/predict_property_value" -> 52

\* C5 as stated: the assembled vector has a length fixed per endpoint,
\* 45 (approval), 38 (borrower risk), 30 (interest rate), 49 (property value).
C5_AsStated ==
    \A t \in Threads :
        LET r == req[t]
        IN  (r.pc # "idle" /\ Handed(r)) => Len(r.vector) = ClaimedLength(r.endpoint)

\* C5 amended: the assembled vector has a length fixed per endpoint whatever
\* the body is: 45 (approval), 38 (borrower risk), 30 (interest rate) and
\* 52 (property value).
C5_FixedLength ==
    \A t \in Threads :
        LET r == req[t]
        IN  (r.pc # "idle" /\ Handed(r)) => Len(r.vector) = ActualLength(r.endpoint)

\* a property-value vector, from a body with an odd value in it, reached the model
C5_Witness ==
    \E t \in Threads :
        LET r == req[t]
        IN  /\ r.endpoint = "/predict_property_value"
            /\ r.pc = "predict"
            /\ Len(r.vector) = 52
            /\ \E k \in DOMAIN r.data : r.data[k] = FltV(2700)

\* the number of features the model in use was fitted on
ExpectedDim(r) == IF r.endpoint = "/predict" THEN model.n ELSE r.handle

\* C6: before a model is called the vector length is compared with the
\* model's input dimensionality; on a mismatch the request fails with
\* InferenceError and the model is not invoked.
C6_LengthValidatedFirst ==
    \A t \in Threads :
        LET r == req[t]
        IN  (r.pc # "idle" /\ Handed(r) /\ Len(r.vector) # ExpectedDim(r)) =>
               /\ r.invoked = 0
               /\ r.pc = "done" => r.exc = "InferenceError"

ResponseKey(e) ==
    CASE e = "/predict" -> "approval_status"
      [] e = "/predict_borrower_risk" -> "risk_classification"
      [] e = "/predict_interest_rate" -> "predicted_interest_rate"
      [] e = "/predict_property_value" -> "predicted_property_value"

\* C7: a successful response is a JSON object with exactly one key, fixed
\* per endpoint; its value is determined by the prediction alone (the class
\* as an integer, the rate as a float, the property value at the nearest
\* hundredth); the probability computed by the two classifier endpoints is
\* not in the response.
C7_SingleKeyResponse ==
    \A t \in Threads :
        LET r == req[t]
            v == r.body[ResponseKey(r.endpoint)]
            d == v.m - r.prediction.m
        IN  r.status = 200 =>
               /\ DOMAIN r.body = {ResponseKey(r.endpoint)}
               /\ IF r.endpoint \in Classifiers
                  THEN v.t = "int" /\ v.m = r.prediction.m /\ v.m \in {0, 1000}
                  ELSE v.t = "float"
               /\ r.endpoint = "/predict_interest_rate" => v.m = r.prediction.m
               /\ r.endpoint = "/predict_property_value" =>
                     (v.m % 10 = 0 /\ d <= 5 /\ -d <= 5)

\* the borrower-risk endpoint answered after computing a probability
C7_Witness ==
    \E t \in Threads :
        LET r == req[t]
        IN  /\ r.status = 200
            /\ r.endpoint = "/predict_borrower_risk"
            /\ r.probability = FltV(875)
            /\ r.body["risk_classification"] = IntV(1)

(***************************************************************************)
(* Properties of the chunked load (under SpecLoad).                        *)
(***************************************************************************)
Returned == returned # {}
ReturnedRows == CHOOSE x \in returned : TRUE

\* C8 as stated: for every max_rows R >= 0, chunksize C >= 1 and number S of
\* source rows, the load returns between R and R+C-1 rows when S >= R+C, and
\* exactly S rows when S < R.
C8_AsStated ==
    Returned =>
        \A R \in max_rows :
            LET n == Len(ReturnedRows)
                S == Len(source)
            IN  /\ S >= R + chunksize => (R <= n /\ n <= R + chunksize - 1)
                /\ S < R => n = S

\* C8 amended: the bounds hold for every max_rows R >= 1; with max_rows = 0
\* the first chunk is still read and the load returns min(S, C) rows.
C8_ChunkCap ==
    Returned =>
        \A R \in max_rows :
            LET n == Len(ReturnedRows)
                S == Len(source)
            IN  IF R >= 1
                THEN /\ S >= R + chunksize => (R <= n /\ n <= R + chunksize - 1)
                     /\ S < R => n = S
                ELSE n = Min(S, chunksize)

\* a load went past its cap, up to the end of the chunk, on a larger source
C8_Witness ==
    /\ Returned
    /\ \E R \in max_rows :
          /\ R >= 1
          /\ Len(source) >= R + chunksize
          /\ Len(ReturnedRows) > R

\* the rows read so far are the first rows of the source, in order
ChunksArePrefix ==
    /\ total_rows <= Len(source)
    /\ Flatten(chunks) = SubSeq(source, 1, total_rows)
    /\ Returned => ReturnedRows = SubSeq(source, 1, total_rows)

\* C9 as stated: the returned table is a prefix of the source rows, the
\* chunks concatenated in the order read with no row dropped, duplicated,
\* reordered or deduplicated, and no chunk is read after the cumulative row
\* count has reached max_rows.
C9_AsStated ==
    /\ []ChunksArePrefix
    /\ [][CapReached(total_rows) => chunks' = chunks]_vars

\* C9 amended: the same, except that the first chunk is read whatever
\* max_rows is (also when max_rows is 0); once a chunk has been read and the
\* cumulative row count has reached max_rows, no chunk is read.
C9_PrefixInOrder ==
    /\ []ChunksArePrefix
    /\ [][(chunks # << >> /\ CapReached(total_rows)) => chunks' = chunks]_vars

\* a load stopped by its cap before the end of a source that repeats a row
C9_Witness ==
    /\ Returned
    /\ Len(chunks) >= 2
    /\ Len(ReturnedRows) < Len(source)
    /\ ReturnedRows[1] = ReturnedRows[2]

\* C10: when the source cannot be reached or a chunk read fails at any
\* point, the load ends in an error: no dataset, in particular none made of
\* the chunks read so far, is returned or assigned to the page's df.
C10_NoPartialDataset ==
    /\ error # "" => (lpc = "failed" /\ returned = {} /\ df = {})
    /\ df # {} => (lpc = "imported" /\ df = {SubSeq(source, 1, total_rows)})

\* a read failed after chunks had been read
C10_Witness ==
    /\ lpc = "failed"
    /\ error = "DatabaseError"
    /\ conn = "open"
    /\ Len(chunks) >= 2
    /\ df = {}

\* the number a body value stands for: the number itself, or the number a
\* numeric string spells
NumberOf(v) == PyFloat(v).v.m

\* C26 (under Spec): in predict_property_value the conversion of an
\* integer-declared field keeps the numeric value: once the feature list is
\* built, each such element equals the body's value numerically ("3" gives
\* 3); a value for which that cannot be, such as 2.7, fails the request
C26_IntCoercionKeepsValue ==
    \A t \in Threads :
        LET r == req[t]
            ks == Keys("/predict_property_value")
        IN  (r.endpoint = "/predict_property_value" /\ r.features # << >>) =>
               \A i \in 1..Len(ks) :
                  Coercers("/predict_property_value")[i] = "int" =>
                     r.features[i].m = NumberOf(r.data[ks[i]])

\* the call of load_chunked_data_from_db is over: it returned or raised
CallEnded == lpc \in {"failed", "returned", "imported"}

\* C23: on every exit path of load_chunked_data_from_db, a returned dataset
\* as well as a failed chunk read or a failed concatenation, the connection
\* the call opened is closed when the call ends
C23_ConnectionClosedOnExit ==
    CallEnded => conn # "open"

(***************************************************************************)
(* Properties of the dashboard (under SpecDash).                           *)
(***************************************************************************)
LabelPages == {"page1", "page2", "page3", "page4"}

\* C11: in every code-to-label derivation a value that is no key of the
\* mapping keeps its original value instead of becoming missing: the
\* action_label of pages 1 to 4 and the loan_type of page 5
C11_UnmappedPassesThrough ==
    /\ \A p \in DOMAIN dfs \cap LabelPages : \A i \in 1..Len(dfs[p]) :
          LET r == dfs[p][i]
          IN  ~InDict(action_labels(p), r["action_taken"])
                 => r["action_label"] = r["action_taken"]
    /\ "page5" \in DOMAIN dfs =>
          \A i \in 1..Len(dfs["page5"]) :
             LET raw == LoadedFrame(table)[i]["loan_type"]
             IN  ~InDict(loan_type_map, PyStr(raw))
                    => dfs["page5"][i]["loan_type"] = raw
    /\ (out.cb = "update_geographic_insights" /\ out.exc = "") =>
          \A i \in 1..Len(out.view) : \A j \in 1..Len(dfs["page4"]) :
             LET raw == dfs["page4"][j]["loan_purpose"]
             IN  (out.view[i]["index"] = dfs["page4"][j]["index"]
                  /\ ~InDict(purpose_map, PyStr(raw)))
                    => out.view[i]["loan_purpose"] = raw

\* C12: the import-time cleaning of a page, applied a second time to the
\* frame it produced, changes no value and removes no row
C12_NormalizeIdempotent ==
    \A p \in DOMAIN dfs : Normalize(p, dfs[p]) = dfs[p]

\* the cleaning had work to do: page 2 dropped a row, page 5 put a label in
\* the place of a loan type code
C12_Witness ==
    /\ Serving /\ order = AppPages
    /\ Len(dfs["page2"]) < Len(table)
    /\ \E i \in 1..Len(dfs["page5"]) :
          /\ dfs["page5"][i]["loan_type"] = Text("FHA insured")
          /\ table[i]["loan_type"] = IntV(2)

\* the rows of a frame by their index labels
Rows(d) == Col(d, "index")

Called(cb) == out.cb = cb /\ out.exc # "ValueError"

\* the frame of the page whose callback ran
PageFrame == dfs[PageOf(out.cb)]

\* the slider value a page's layout starts with: [min(years), max(years)]
DefaultRange(d) ==
    LET ys == Sorted(Options1(d, "activity_year"))
    IN  ListV(<<IntV(ys[1].m \div 1000), IntV(ys[Len(ys)].m \div 1000)>>)

\* no filter is selected: the dropdowns are empty and the range slider is
\* at its default
NoFilter ==
    /\ out.cb \in Callbacks
    /\ IF out.cb \in {"update_page", "update_interest_histograms"}
       THEN /\ out.args[1] = DefaultRange(PageFrame)
            /\ out.args[2] = Null
            /\ out.cb = "update_interest_histograms" => out.args[3] = Null
       ELSE \A i \in 1..(IF out.cb = "update_risk" THEN 4 ELSE 3) :
               out.args[i] \in {Null, ListV(<< >>)}

\* the rows a callback keeps whatever is selected: a comparison with a
\* missing year is False on pages 1 and 5, page 2 sets the not-available
\* categories aside, page 4 the purpose 5
Kept(cb, r) ==
    CASE cb \in {"update_page", "update_interest_histograms"} ->
            IsNumber(r["activity_year"])
      [] cb = "update_demographics" ->
            /\ r["derived_race"] \notin {Text("Free Form Text Only"), Text("Joint"),
                                         Text("Race Not Available")}
            /\ r["derived_sex"] # Text("Sex Not Available")
            /\ r["applicant_age"] \notin {Text("nan"), Text("NaN"), Text("NAN")}
      [] cb = "update_geographic_insights" ->
            r["loan_purpose"] \notin {Text("5"), Text("Not applicable")}
      [] OTHER -> TRUE

\* C13 as stated: with no filter selected the view has exactly the rows of
\* the page's frame
C13_AsStated ==
    NoFilter => Rows(out.view) = Rows(PageFrame)

\* C13: with no filter selected the view has exactly the rows of the page's
\* frame that the callback keeps whatever is selected
C13_NoFilterKeepsUnexcluded ==
    NoFilter => Rows(out.view) = Rows(Where(PageFrame, LAMBDA r : Kept(out.cb, r)))

\* update_page ran with nothing selected and aggregated some but not all
\* rows of the frame
C13_Witness ==
    /\ Called("update_page") /\ NoFilter
    /\ out.view # << >>
    /\ Len(out.view) < Len(dfs["page1"])

Selected == Masks(out.cb, out.args)

Satisfying(d, fs) == Where(d, LAMBDA r : \A i \in 1..Len(fs) : Holds(r, fs[i]))

Reordered(fs) ==
    {[i \in 1..Len(fs) |-> fs[q[i]]] : q \in Permutations(1..Len(fs))}

\* C14 as stated: the view is exactly the rows that satisfy every selected
\* predicate, and the order of the filters does not matter
C14_AsStated ==
    out.cb \in Callbacks =>
       /\ Rows(out.view) = Rows(Satisfying(PageFrame, Selected))
       /\ \A fs \in Reordered(Selected) :
             Apply(PageFrame, fs) = Apply(PageFrame, Selected)

\* C14: the view is exactly the rows, among those the callback keeps
\* whatever is selected, that satisfy every selected predicate, and the
\* order of the filters does not matter
C14_ConjunctionOfSelected ==
    out.cb \in Callbacks =>
       /\ Rows(out.view) =
             Rows(Where(Satisfying(PageFrame, Selected), LAMBDA r : Kept(out.cb, r)))
       /\ \A fs \in Reordered(Selected) :
             Apply(PageFrame, fs) = Apply(PageFrame, Selected)

\* update_risk ran with two filters selected, each of which alone keeps
\* more rows than the two together
C14_Witness ==
    /\ Called("update_risk")
    /\ Len(Selected) = 2
    /\ out.view # << >>
    /\ \A i \in 1..2 : Len(out.view) < Len(Satisfying(PageFrame, <<Selected[i]>>))

\* an Output value that stands for "nothing to show": a literal placeholder
\* or a zero count for a KPI, {} or a figure without data for a chart
Placeholder(x) ==
    IF x.kind = "fig" THEN x.data = << >>
    ELSE x.fmt = "lit" \/ x.v = IntV(0)

NoValue(c) == Present(Col(out.view, c)) = << >>

\* the strings among the returned values
Texts == {i \in 1..Len(out.ret) : out.ret[i].kind = "text"}

\* C16: a rate or mean over an empty denominator yields the sentinel ("0%",
\* "$0"): no KPI of pages 1, 2 and 3 is NaN and none of them raises
C16_EmptyDenominatorSentinel ==
    (out.cb \in {"update_page", "update_demographics", "update_risk"}) =>
       /\ out.exc # "ValueError"
       /\ \A i \in Texts : out.ret[i].v # NaN /\ out.ret[i].k # NaN
       /\ (out.cb = "update_page" /\ out.view # << >>) =>
             /\ NoValue("loan_amount") => out.ret[7] = Lit("$0")
             /\ NoValue("interest_rate") => out.ret[8] = Lit("0%")
       /\ (out.cb = "update_risk" /\ out.view # << >>) =>
             /\ NoValue("loan_to_value_ratio") => out.ret[1] = Lit("0%")
             /\ NoValue("property_value") => out.ret[2] = Lit("$0")

\* the rows of the view that belong to the group of key k
GroupOf(c, k) == Where(out.view, LAMBDA r : r[c] = k)

\* C17: two reducers over the same group-by key have the same group keys in
\* the same order, and each group's metric is computed from the values of
\* that group: the approved and total counts by state of page 1, the four
\* per-state metrics of page 4
C17_PairedReducersAligned ==
    /\ (out.cb = "update_page" /\ out.view # << >> /\ out.args[3] = "approval_rate") =>
          LET a == approved_by_state(out.view)
              b == total_by_state(out.view)
              rate == out.ret[3].data
          IN  /\ GroupKeys(a) = GroupKeys(b)
              /\ \A i \in 1..Len(rate) :
                    rate[i].value =
                       Percent(Len(Where(GroupOf("state_code", rate[i].key),
                                         LAMBDA r : Is(r["action_taken"], 1))),
                               Len(GroupOf("state_code", rate[i].key)))
    /\ out.cb = "update_geographic_insights" =>
          LET st == out.ret[1].data
          IN  /\ GroupKeys(st) = Sorted(Options1(out.view, "state_code"))
              /\ \A i \in 1..Len(st) :
                    LET g == GroupOf("state_code", st[i].key)
                    IN  /\ st[i].loan_amount = mean(Col(g, "loan_amount"))
                        /\ st[i].property_value = mean(Col(g, "property_value"))
                        /\ st[i].interest_rate = mean(Col(g, "interest_rate"))
                        /\ st[i].application_count = IntV(Len(g))

\* C19 as stated: the dataset is loaded exactly once at process start
C19_AsStated ==
    Serving => db_loads = 1

\* C19: the dataset is loaded once by each page module the process imports,
\* every page holds the frame its own load and cleaning produced, and a
\* serving process (callbacks, tab switches) makes no further load
C19_OneLoadPerPage ==
    /\ Serving => db_loads = Len(order)
    /\ \A p \in DOMAIN dfs : dfs[p] = Normalize(p, LoadedFrame(table))

\* the four pages of app1.py have loaded and a tab has been switched
C19_Witness ==
    /\ Serving /\ order = AppPages /\ db_loads = 4
    /\ out.cb = "render_tab_content" /\ out.args = <<"geographic">>
    /\ table # << >>

\* C20: once the process serves, no callback changes a page's module-level
\* frame
C20_CallbacksLeaveFrames ==
    [][Serving => dfs' = dfs]_vars

\* update_geographic_insights ran with nothing selected and put a label in
\* the place of a purpose code of its view, while the page's frame keeps the
\* code
C20_Witness ==
    /\ Called("update_geographic_insights") /\ Selected = << >>
    /\ \E i \in 1..Len(out.view) : \E j \in 1..Len(dfs["page4"]) :
          /\ out.view[i]["index"] = dfs["page4"][j]["index"]
          /\ out.view[i]["loan_purpose"] = Text("Home purchase")
          /\ dfs["page4"][j]["loan_purpose"] = Text("1")

\* what the Outputs of update_page take, in the declared order: the figure
\* of three charts and of the line chart, then the children of four KPIs
DeclaredOutputs == <<"fig", "fig", "fig", "fig", "text", "text", "text", "text">>

\* C22: whatever path update_page returns on, the returned tuple has one
\* element per declared Output, in the declared order: a figure in each
\* figure slot and a string in each KPI slot
C22_OneValuePerOutput ==
    out.cb = "update_page" =>
       /\ Len(out.ret) = Len(DeclaredOutputs)
       /\ \A i \in 1..Len(DeclaredOutputs) : out.ret[i].kind = DeclaredOutputs[i]

\* update_page ran for the filter state page 1 starts in: the year slider at
\* [min year, max year] and no state selected
DefaultCall ==
    /\ out.cb = "update_page"
    /\ out.args[1] = DefaultRange(dfs["page1"])
    /\ out.args[2] = Null

\* C24: the four KPI values page 1 computed at import for its layout (total
\* applications, approval rate, average loan amount, average interest rate)
\* equal the KPI values update_page returns for the default filter state
C24_InitialKpisMatchDefault ==
    DefaultCall =>
       /\ Len(out.ret) = 8
       /\ \A i \in 1..4 : out.ret[4 + i].v = layout[i].v

\* C25: with the map metric approval_rate, update_page gives every state
\* that has a row in the filtered view the number 100 * approved / rows of
\* that state; a state with rows and no approved loan gets 0, no missing
\* value
C25_ApprovalRatePerState ==
    (out.cb = "update_page" /\ out.view # << >> /\ out.args[3] = "approval_rate") =>
       LET rate == out.ret[3].data
       IN  \A k \in Options1(out.view, "state_code") :
              \E i \in 1..Len(rate) :
                 /\ rate[i].key = k
                 /\ IsNumber(rate[i].value)
                 /\ rate[i].value =
                       Percent(Len(Where(GroupOf("state_code", k),
                                         LAMBDA r : Is(r["action_taken"], 1))),
                               Len(GroupOf("state_code", k)))

(***************************************************************************)
(* Properties of the API process under load (under SpecServer).            *)
(***************************************************************************)
\* C18: each of the four model artifacts is loaded at most once in the
\* lifetime of the process, whatever requests it answers
C18_LoadedAtMostOnce ==
    \A a \in Artifacts : loads[a] <= 1

\* what a finished request shows its client
Response(r) == [status |-> r.status, body |-> r.body, exc |-> r.exc, arg |-> r.arg]

Failure(exc, arg) == [status |-> 500, body |-> << >>, exc |-> exc, arg |-> arg]

\* the responses a model call on vector v can end in, n being the number of
\* features the model was fitted with
CallAlone(e, v, n) ==
    LET answers == {[status |-> 200, body |-> result(e, p, q), exc |-> "", arg |-> ""] :
                        p \in Predictions(e), q \in Probabilities}
        fails == {Failure("ValueError", "raised by the model library")}
    IN  IF Len(v) # n THEN fails
        ELSE IF \E i \in 1..Len(v) : ~IsNumber(v[i]) THEN fails \cup answers
        ELSE answers

\* the responses a request for endpoint e with body data can get from a
\* process that handles nothing else, m being the module-level model
Alone(e, data, m) ==
    LET f == features(e, data)
        absent == {Failure("FileNotFoundError", "")}
    IN  IF e = "/predict"
        THEN IF f.ok THEN CallAlone(e, NpArray(f.vec), m.n)
             ELSE {Failure(f.exc, f.arg)}
        ELSE IF e = "/predict_property_value"
        THEN absent \cup (IF f.ok THEN UNION {CallAlone(e, f.vec, d) : d \in ArtifactDims(e)}
                                  ELSE {Failure(f.exc, f.arg)})
        ELSE IF f.ok THEN absent \cup UNION {CallAlone(e, f.vec, d) : d \in ArtifactDims(e)}
             ELSE {Failure(f.exc, f.arg)}

\* C21: requests share no mutable state.  No step changes the module-level
\* model; a step of one request changes nothing of any other request, its
\* loaded handle included, whether the step succeeds or fails; and every
\* finished request shows a response the same request can get when it is
\* processed alone
C21_RequestsIsolated ==
    [][/\ model' = model
       /\ \A t \in ServerThreads :
              req'[t] # req[t] => \A u \in ServerThreads \ {t} : req'[u] = req[u]
       /\ \A t \in ServerThreads :
              req'[t].pc = "done" =>
                  Response(req'[t]) \in Alone(req'[t].endpoint, req'[t].data, model)]_vars

\* two requests for the same endpoint with different bodies are finished at
\* the same time, one answered 200 and one failed
C21_Witness ==
    /\ req[1].pc = "done" /\ req[2].pc = "done"
    /\ req[1].endpoint = req[2].endpoint
    /\ req[1].endpoint = "/predict_interest_rate"
    /\ req[1].status = 200 /\ req[2].status = 500 /\ req[2].exc = "KeyError"
    /\ req[1].handle # 0

====
